---- MODULE Spec2Model ----
(***************************************************************************)
(* The calendar tool server's calendar_find_free handler                   *)
(* (servers/calendar-mcp/index.js): schema validation, the free/busy       *)
(* reply, and the first-fit scan over the busy list; the tools/call        *)
(* handlers of the four tool servers; the client's startup and REPL.       *)
(*                                                                         *)
(* Timestamps cross the handler's boundary as ISO-8601 strings and are     *)
(* scanned as epoch milliseconds.  A string is modelled by the fields a    *)
(* Date reads from it; a JavaScript number is <<v>> or NaN.                *)
(***************************************************************************)
EXTENDS Integers, Sequences, FiniteSets, TLC

\* ------------------------------------------------------------------- state
VARIABLES
    args,        \* the arguments of the tools/call request
    busy,        \* fb.data.calendars.primary.busy of the free/busy reply
    tokenFile,   \* whether TOKEN_PATH exists
    pc,          \* "idle", "oauth", "query", "scan", "done", "rejected",
                 \* "failed", "threw", "crashed"
    cursor,      \* the handler's locals
    endWin,
    durMs,
    timeZone,
    idx,         \* the position of the for-of loop in busy
    visited,     \* the positions the loop has read, in order
    result,      \* the JSON payload returned
    calls,       \* calendar_find_free calls answered so far
    firstResult, \* the payload of the first of them
    otherCalls,  \* calls of the server's other tools so far
    apiCalls,    \* requests the server has sent to the calendar API
    \* the tool servers
    request,     \* the tools/call request a server handled last
    outcome,     \* how its handler ended
    effects,     \* what the handler did on the way
    loaded,      \* loaded.pageCount of the PDF server
    gmailToken,  \* whether the Gmail server's TOKEN_PATH exists
    env,         \* which environment variables are set
    corrupt,     \* the servers whose token file exists and holds no JSON
    inflight,    \* the handlers that wait for the OAuth flow or an API reply
    running,     \* the server processes that run
    left,        \* what handlers that went on left behind: <<server, what>>
    \* the client
    connected,   \* the servers client.connect has returned for, in order
    listed,      \* the servers that have answered tools/list, in order
    clientPc,    \* "spawning", "repl", "exited", "crashed"
    sent,        \* the tools/call requests sent, each with its command
    lines,       \* the commands of the lines the REPL has read, in order
    pending,     \* the line handlers that wait for a reply
    closed,      \* the clients whose close() has been called
    \* one run of ensureTokens in a Gmail or Calendar tool call
    authPc,      \* "idle", "opening", "waiting", "returned", "answered",
                 \* "refused", "errored"
    credentials, \* whether oauth2.setCredentials has been called
    listener,    \* the callback server: "none", "open", "closing", "closed",
                 \* "emitting" (closed, and "close" is emitted once more)
    exchanging,  \* request handlers waiting in await oauth2.getToken(code)
    exchanges,   \* oauth2.getToken calls made
    writes,      \* writes of the token file
    arrived,     \* HTTP requests that have reached the listener
    callbacks,   \* those of them with path /oauth2callback
    \* the PDF server
    loadedPages, \* loaded.pages
    loadedSource,\* loaded.source
    loads,       \* the loadPdfToMemory runs started, each with its local pages
    lastOk,      \* the run that assigned loaded last, 0 when none has
    reply,       \* the payload of the request handled last
    \* one askpdf command of the client
    askPc,       \* "idle", "counting", "reading", "done", "failed"
    askTotal,    \* total, from the page_count reply
    askSource,   \* the document loaded when page_count was answered
    askRead,     \* the extract_text replies put into context, in order
    askWire,     \* its request on the way to the server, or the reply to it
    generations  \* generateAnswer calls

locals == <<cursor, endWin, durMs, timeZone, idx, visited>>

\* what no handler changes
fixed == <<env, corrupt>>

runVars == <<inflight, running, left>>

logVars == <<request, outcome, effects>>

toolVars == <<logVars, loaded, gmailToken, fixed, runVars>>

clientVars == <<connected, listed, clientPc, sent, lines, pending, closed>>

authVars ==
    <<authPc, credentials, listener, exchanging, exchanges, writes, arrived,
      callbacks>>

\* the run of ensureTokens but for its listener and the credentials
authRest == <<authPc, exchanging, exchanges, writes, arrived, callbacks>>

pdfVars == <<loadedPages, loadedSource, loads, lastOk, reply>>

askVars == <<askPc, askTotal, askSource, askRead, askWire, generations>>

others == <<toolVars, clientVars, authVars, pdfVars, askVars>>

vars ==
    <<args, busy, tokenFile, pc, cursor, endWin, durMs, timeZone, idx, visited,
      result, calls, firstResult, otherCalls, apiCalls, toolVars, clientVars,
      authVars, pdfVars, askVars>>

\* ------------------------------------------------------------------ bounds
\* enumerated clock readings are minutes 0..MaxTime after 1970-01-01T00:00Z
MaxTime == 2
\* enumerated free/busy replies hold at most MaxBusy intervals
MaxBusy == 2
\* enumerated requests ask for 0..MaxDur minutes (0 fails the schema)
MaxDur == 2
\* tool calls issued in one session
MaxCalls == 2
\* a loaded PDF has 1..MaxPages pages
MaxPages == 2
\* lines the REPL reads in one run
MaxLines == 2
\* HTTP requests that reach the OAuth listener in one run
MaxRequests == 3
\* load_pdf calls in one run of the PDF server
MaxLoads == 2
\* handlers of the web-search, Gmail and Calendar servers that wait at once
MaxInflight == 1
\* calls of the Calendar server's tools beside the calendar_find_free calls of
\* a session
MaxOther == 1

\* --------------------------------------------------------- JavaScript numbers
NaN == <<>>

Num(v) == <<v>>

IsNaN(n) == n = NaN

Val(n) == n[1]

\* a - b
JsSub(a, b) == IF IsNaN(a) \/ IsNaN(b) THEN NaN ELSE Num(Val(a) - Val(b))

\* a + b
JsAdd(a, b) == IF IsNaN(a) \/ IsNaN(b) THEN NaN ELSE Num(Val(a) + Val(b))

\* a >= b: false as soon as one side is NaN
JsGe(a, b) == ~IsNaN(a) /\ ~IsNaN(b) /\ Val(a) >= Val(b)

\* Math.max(a, b): NaN as soon as one side is NaN
MathMax(a, b) ==
    IF IsNaN(a) \/ IsNaN(b) THEN NaN
    ELSE IF Val(a) >= Val(b) THEN a ELSE b

\* ------------------------------------------------------------ dates and strings
MsPerMinute == 60 * 1000

MsPerHour == 60 * MsPerMinute

MsPerDay == 24 * MsPerHour

\* JSON null
Null == [kind |-> "null"]

\* a property that is absent from the arguments
Undefined == [kind |-> "undefined"]

\* the string ""
EmptyString == [kind |-> "empty"]

\* a string that is an e-mail address
Email == [kind |-> "email"]

\* the numbers v and v + 1/2
Number(v) == [kind |-> "number", int |-> TRUE, floor |-> v]

Half(v) == [kind |-> "number", int |-> FALSE, floor |-> v]

Array(items) == [kind |-> "array", items |-> items]

\* the object {}
NoArguments == [kind |-> "object"]

\* a string that is no date ("tomorrow")
NotADate == [kind |-> "text"]

\* the string 1970-01-(1+d)Thh:mm:ss.mmm followed by Z (off = 0) or by a
\* UTC offset of off minutes
Iso(d, h, m, s, ms, off) ==
    [kind |-> "iso", d |-> d, h |-> h, m |-> m, s |-> s, ms |-> ms, off |-> off]

\* the canonical string of minute `min` of 1970-01-01
IsoMinute(min) == Iso(0, min \div 60, min % 60, 0, 0, 0)

\* an array with a number somewhere in it: its string is made of digits, which
\* is no date-time string of the language; what Date.parse makes of it is left
\* to the engine's fallback parser
RECURSIVE HoldsNumber(_)
HoldsNumber(x) ==
    /\ x.kind = "array"
    /\ \E i \in DOMAIN x.items :
        x.items[i].kind = "number" \/ HoldsNumber(x.items[i])

\* new Date(x).getTime(): a string is parsed, null is converted to the number
\* 0, a number is cut to its whole milliseconds, toward zero, and an array is
\* converted to a string first, which for an array of one element is that
\* element's string; an absent property and a string that is no date give NaN.
\* An array that holds a number is outside the domain: the engine's fallback
\* parser reads a date of its own choosing from the digits (a day of the year
\* 2000 for "0"), or none, and no value of the program is such an array
RECURSIVE DateParse(_)
DateParse(x) ==
    IF x.kind = "iso"
    THEN Num(x.d * MsPerDay + x.h * MsPerHour
             + (x.m - x.off) * MsPerMinute + x.s * 1000 + x.ms)
    ELSE IF x.kind = "null"
    THEN Num(0)
    ELSE IF x.kind = "number"
    THEN Num(IF x.int \/ x.floor >= 0 THEN x.floor ELSE x.floor + 1)
    ELSE IF x.kind = "array" /\ Len(x.items) = 1
                             /\ x.items[1].kind \in {"iso", "array"}
    THEN DateParse(x.items[1])
    ELSE CASE ~HoldsNumber(x) -> NaN

\* what new Date(n).toISOString() throws for an invalid date
RangeError == [kind |-> "RangeError"]

\* new Date(n).toISOString()
DateToISOString(n) ==
    IF IsNaN(n) THEN RangeError
    ELSE Iso(Val(n) \div MsPerDay,
             (Val(n) \div MsPerHour) % 24,
             (Val(n) \div MsPerMinute) % 60,
             (Val(n) \div 1000) % 60,
             Val(n) % 1000,
             0)

\* ---------------------------------------------------------------- the handler
\* const DEFAULT_TZ = process.env.CALENDAR_DEFAULT_TZ || "America/Chicago"
DEFAULT_TZ ==
    IF env.CALENDAR_DEFAULT_TZ \in {"undefined", ""}
    THEN "America/Chicago"
    ELSE env.CALENDAR_DEFAULT_TZ

\* z.object({durationMinutes: z.number().int().min(1), timeMin: z.string(),
\*           timeMax: z.string(), timeZone: z.string().optional()})
IsString(x) == x.kind \in {"iso", "text", "empty", "email"}

\* a schema with durationMinutes: z.number() alone
SchemaOkAnyNumber(a) ==
    /\ a.durationKind \in {"int", "fraction"}
    /\ IsString(a.timeMin)
    /\ IsString(a.timeMax)

\* durationMinutes is the number durationMinutes when durationKind is "int",
\* durationMinutes + 1/2 when it is "fraction", and otherwise no number
\* (JSON null, which is how NaN arrives, a string, or absent)
SchemaOk(a) ==
    /\ a.durationKind = "int"
    /\ a.durationMinutes >= 1
    /\ IsString(a.timeMin)
    /\ IsString(a.timeMax)

\* a handler that answers in its own time zone whatever the request names
TimeZoneIgnored(a) == DEFAULT_TZ

\* const { ..., timeZone = DEFAULT_TZ } = schema.parse(args ?? {})
TimeZoneOf(a) == IF a.timeZone = "undefined" THEN DEFAULT_TZ ELSE a.timeZone

\* a scan that resumes after the slot it offered last
InitCursorResume(timeMin) ==
    IF calls = 0 \/ result.slotEnd = Null
    THEN DateParse(timeMin)
    ELSE DateParse(result.slotEnd)

\* let cursor = new Date(timeMin).getTime()
InitCursor(timeMin) == DateParse(timeMin)

\* a duration converted as if it were given in seconds
DurMsSeconds(durationMinutes) == Num(durationMinutes * 1000)

\* const durMs = durationMinutes * 60 * 1000
DurMs(durationMinutes) == Num(durationMinutes * 60 * 1000)

\* a gap test that refuses the exact fit
GapFitsStrict(from, to, dur) ==
    LET gap == JsSub(to, from)
    IN  ~IsNaN(gap) /\ ~IsNaN(dur) /\ Val(gap) > Val(dur)

\* a gap test written !(gap < durMs), which NaN passes
GapFitsNotLess(from, to, dur) ==
    LET gap == JsSub(to, from)
    IN  ~(~IsNaN(gap) /\ ~IsNaN(dur) /\ Val(gap) < Val(dur))

\* bStart - cursor >= durMs, and endWin - cursor >= durMs
GapFits(from, to, dur) == JsGe(JsSub(to, from), dur)

\* a cursor that jumps to the end of the interval, backward too
AdvanceToEnd(cur, bEnd) == bEnd

\* cursor = Math.max(cursor, bEnd)
Advance(cur, bEnd) == MathMax(cur, bEnd)

\* a payload whose bounds are moved to the wall clock of a time zone named by
\* the request
SlotJsonLocal(cur, dur, tz) ==
    LET shift == IF tz = DEFAULT_TZ THEN Num(0) ELSE Num(MsPerHour)
    IN  [slotStart |-> DateToISOString(JsAdd(cur, shift)),
         slotEnd   |-> DateToISOString(JsAdd(JsAdd(cur, shift), dur)),
         timeZone  |-> tz]

\* JSON.stringify({ slotStart, slotEnd, timeZone }) of a found slot
SlotJson(cur, dur, tz) ==
    [slotStart |-> DateToISOString(cur),
     slotEnd   |-> DateToISOString(JsAdd(cur, dur)),
     timeZone  |-> tz]

\* JSON.stringify({ slotStart: null, slotEnd: null, timeZone })
NotFoundJson(tz) == [slotStart |-> Null, slotEnd |-> Null, timeZone |-> tz]

\* the loop from interval i on, with the cursor at cur, and the tail after it
RECURSIVE ScanFrom(_, _, _, _, _, _)
ScanFrom(bz, i, cur, endW, dur, tz) ==
    IF i > Len(bz)
    THEN IF GapFits(cur, endW, dur) THEN SlotJson(cur, dur, tz) ELSE NotFoundJson(tz)
    ELSE IF GapFits(cur, DateParse(bz[i].start), dur)
         THEN SlotJson(cur, dur, tz)
         ELSE ScanFrom(bz, i + 1, Advance(cur, DateParse(bz[i].end)), endW, dur, tz)

\* the scan of one validated request over one free/busy reply
FindFree(bz, a) ==
    ScanFrom(bz, 1, InitCursor(a.timeMin), DateParse(a.timeMax),
             DurMs(a.durationMinutes), TimeZoneOf(a))

\* ------------------------------------------------------------------ inputs
Clock == {IsoMinute(t) : t \in 0..MaxTime}

Intervals == [start : Clock, end : Clock]

BusyLists == UNION {[1..n -> Intervals] : n \in 0..MaxBusy}

Requests ==
    [durationMinutes : 0..MaxDur, durationKind : {"int"}, timeMin : Clock,
     timeMax : Clock, timeZone : {"undefined"}]

Busy(s, e) == [start |-> IsoMinute(s), end |-> IsoMinute(e)]

Request(d, s, e, tz) ==
    [durationMinutes |-> d, durationKind |-> "int", timeMin |-> s,
     timeMax |-> e, timeZone |-> tz]

\* requests whose durationMinutes is no integer >= 1: -1, 1/2, 3/2, null (NaN
\* on the wire), a string, absent
BadDurations ==
    { <<[Request(d[1], IsoMinute(0), IsoMinute(2), "undefined")
            EXCEPT !.durationKind = d[2]], <<Busy(1, 2)>>>> :
        d \in { <<-1, "int">>, <<0, "fraction">>, <<1, "fraction">>,
                <<0, "null">>, <<0, "string">>, <<0, "undefined">> } }

\* the worked scenarios, a list with two gaps that fit, window bounds that are
\* no dates, an offset window and a time zone given by the caller
Scenarios ==
    { <<Request(1, IsoMinute(0), IsoMinute(6), "undefined"),
        <<Busy(0, 1), Busy(3, 4)>>>>,
      <<Request(5, IsoMinute(0), IsoMinute(30), "undefined"),
        <<Busy(10, 20), Busy(15, 25)>>>>,
      <<Request(5, IsoMinute(10), IsoMinute(30), "undefined"),
        <<Busy(10, 20), Busy(15, 25)>>>>,
      <<Request(30, IsoMinute(0), IsoMinute(120), "UTC"), <<Busy(60, 90)>>>>,
      <<Request(30, IsoMinute(0), IsoMinute(120), "UTC"), <<Busy(0, 90)>>>>,
      <<Request(30, IsoMinute(0), IsoMinute(120), "UTC"), <<Busy(0, 100)>>>>,
      <<Request(1, NotADate, IsoMinute(2), "undefined"), <<Busy(1, 2)>>>>,
      <<Request(1, IsoMinute(0), NotADate, "undefined"), <<Busy(0, 1)>>>>,
      <<Request(1, IsoMinute(0), IsoMinute(3), "undefined"),
        <<[start |-> NotADate, end |-> IsoMinute(1)],
          [start |-> IsoMinute(1), end |-> NotADate], Busy(2, 3)>>>>,
      <<Request(1, Iso(0, 0, 1, 0, 0, -60), Iso(0, 1, 5, 0, 0, 0), "UTC"),
        <<Busy(61, 63)>>>>,
      <<Request(1, Undefined, IsoMinute(2), "undefined"), <<>>>>,
      <<Request(1, IsoMinute(0), IsoMinute(2), "UTC"),
        <<[start |-> Null, end |-> Null]>>>>,
      <<Request(1, IsoMinute(1), IsoMinute(5), "UTC"),
        <<[start |-> IsoMinute(1), end |-> Null]>>>>,
      <<Request(1, IsoMinute(0), IsoMinute(5), "UTC"),
        <<[start |-> Number(0), end |-> Half(2 * MsPerMinute)]>>>>,
      <<Request(1, Iso(-1, 23, 59, 0, 0, 0), IsoMinute(1), "UTC"),
        <<[start |-> Half(-1), end |-> Number(0)]>>>>,
      <<Request(1, IsoMinute(0), IsoMinute(5), "UTC"),
        <<[start |-> Array(<<IsoMinute(1)>>),
           end |-> Array(<<IsoMinute(3)>>)]>>>> }

Inputs == (Requests \X BusyLists) \cup Scenarios \cup BadDurations

NoResult == [kind |-> "none"]

InitWith(inputs) ==
    /\ \E in \in inputs : args = in[1] /\ busy = in[2]
    /\ tokenFile \in BOOLEAN
    /\ pc = "idle"
    /\ cursor = NaN
    /\ endWin = NaN
    /\ durMs = NaN
    /\ timeZone = "undefined"
    /\ idx = 1
    /\ visited = <<>>
    /\ result = NoResult
    /\ calls = 0
    /\ firstResult = NoResult
    /\ otherCalls = 0
    /\ apiCalls = 0

\* no tools/call request has been handled
NoRequest == [server |-> "none", name |-> "none", arguments |-> NoArguments]

\* the handler neither started the OAuth flow nor forwarded a request
NoEffects == [oauth |-> FALSE, forwarded |-> FALSE]

\* the values of CALENDAR_DEFAULT_TZ: not set, empty, and the name of a time zone
DefaultZones == {"undefined", "", "Europe/Paris"}

FullEnv ==
    [SERPAPI_KEY |-> TRUE, GOOGLE_CLIENT |-> TRUE,
     CALENDAR_DEFAULT_TZ |-> "undefined"]

Servers == {"pdf", "web", "gmail", "cal"}

\* no request has reached a server
ToolQuiet ==
    /\ request = NoRequest
    /\ outcome = "none"
    /\ effects = NoEffects
    /\ loaded = 0
    /\ inflight = <<>>
    /\ left = {}

ToolIdle ==
    /\ ToolQuiet
    /\ gmailToken = FALSE
    /\ env = FullEnv
    /\ corrupt = {}
    /\ running = Servers

\* main() spawns the servers in this order
ServerOrder == <<"pdf", "web", "gmail", "cal">>

\* the client has spawned the four servers and listens for lines
ClientReady ==
    /\ connected = ServerOrder
    /\ listed = ServerOrder
    /\ clientPc = "repl"
    /\ sent = <<>>
    /\ lines = <<>>
    /\ pending = <<>>
    /\ closed = {}

\* no tool call has asked for the API client
AuthIdle ==
    /\ authPc = "idle"
    /\ credentials = FALSE
    /\ listener = "none"
    /\ exchanging = 0
    /\ exchanges = 0
    /\ writes = 0
    /\ arrived = 0
    /\ callbacks = 0

\* what the PDF server returns no payload with
NoReply == [kind |-> "none"]

\* the PDF server has loaded nothing and the client has asked nothing
\* nothing of the askpdf is on its way
NoWire == [kind |-> "none"]

PdfIdle ==
    /\ loadedPages = <<>>
    /\ loadedSource = EmptyString
    /\ loads = <<>>
    /\ lastOk = 0
    /\ reply = NoReply
    /\ askPc = "idle"
    /\ askTotal = 0
    /\ askSource = EmptyString
    /\ askRead = <<>>
    /\ askWire = NoWire
    /\ generations = 0

\* the environments of the enumerated calls: every variable set, and for the
\* worked scenarios also no client id and another default time zone
EnvsOf(in) ==
    IF in \in Scenarios
    THEN [SERPAPI_KEY : {TRUE}, GOOGLE_CLIENT : BOOLEAN,
          CALENDAR_DEFAULT_TZ : DefaultZones]
    ELSE {FullEnv}

\* the token files of the enumerated calls: a token file that can be read,
\* and for the worked scenarios also none and one that holds no JSON
TokensOf(in) ==
    IF in \in Scenarios
    THEN {<<FALSE, {}>>, <<TRUE, {}>>, <<TRUE, {"cal"}>>}
    ELSE {<<TRUE, {}>>}

Init ==
    /\ InitWith(Inputs)
    /\ ToolQuiet
    /\ gmailToken = FALSE
    /\ env \in EnvsOf(<<args, busy>>)
    /\ \E held \in TokensOf(<<args, busy>>) :
        tokenFile = held[1] /\ corrupt = held[2]
    /\ running = Servers
    /\ ClientReady
    /\ AuthIdle
    /\ PdfIdle

\* a listener of an OAuth flow holds the redirect port, from server.listen to
\* server.close(), also when its ensureTokens has thrown
PortHeld ==
    \/ pc = "oauth" /\ listener = "open"
    \/ \E i \in DOMAIN inflight : inflight[i].at = "oauth"
    \/ \E e \in left : e[2] = "listener"

\* whether the token file is written: only when the code was exchanged
Saved(exchanged) == IF exchanged THEN BOOLEAN ELSE {FALSE}

\* the handlers in flight that the end of server s leaves
Survivors(s) == SelectSeq(inflight, LAMBDA r : r.server # s)

\* the listeners and code exchanges left behind that the end of server s leaves
LeftAfter(s) == {e \in left : e[1] # s}

\* callback handlers may still wait in await oauth2.getToken when the listener
\* of a flow of server s has been closed
StillExchanging(s) == left \cup {<<s, "exchange">>}

\* what the handler's own steps leave alone
outsideScan ==
    <<args, busy, result, calls, firstResult, otherCalls, logVars, loaded,
      gmailToken, fixed, clientVars, authRest, pdfVars, askVars>>

\* the handler up to its first wait: schema.parse, getOAuth2Client and
\* ensureTokens.  With a token file the credentials are read from it and the
\* free/busy query is sent; without one the listener of the OAuth flow is
\* started, which ends the process when the port is in use.
CallFindFree ==
    /\ pc = "idle"
    /\ "cal" \in running
    /\ IF ~SchemaOk(args)
       THEN /\ pc' = "rejected"
            /\ UNCHANGED <<apiCalls, runVars, listener, credentials>>
       ELSE IF ~env.GOOGLE_CLIENT \/ (tokenFile /\ "cal" \in corrupt)
       THEN /\ pc' = "failed"
            /\ UNCHANGED <<apiCalls, runVars, listener, credentials>>
       ELSE IF tokenFile
       THEN /\ pc' = "query"
            /\ credentials' = TRUE
            /\ apiCalls' = apiCalls + 1
            /\ UNCHANGED <<runVars, listener>>
       ELSE IF PortHeld
       THEN /\ pc' = "crashed"
            /\ running' = running \ {"cal"}
            /\ inflight' = Survivors("cal")
            /\ left' = LeftAfter("cal")
            /\ UNCHANGED <<apiCalls, listener, credentials>>
       ELSE /\ pc' = "oauth"
            /\ listener' = "open"
            /\ UNCHANGED <<apiCalls, runVars, credentials>>
    /\ UNCHANGED <<tokenFile, locals, outsideScan>>

\* a request to /oauth2callback is handled to its end by the listener of the
\* flow: the code is exchanged or not and the token file written or not, and
\* server.close() frees the port.  The handler of calendar_find_free waits on
\* for the "close" event, and a request on a connection the listener took
\* before may still follow
CalendarCallback ==
    /\ pc = "oauth"
    /\ \E exchanged \in BOOLEAN : \E saved \in Saved(exchanged) :
        /\ credentials' = (credentials \/ exchanged)
        /\ tokenFile' = (tokenFile \/ saved)
    /\ listener' = "closing"
    /\ UNCHANGED <<pc, apiCalls, locals, runVars, outsideScan>>

\* await open(authUrl) rejects: ensureTokens throws and the handler with it;
\* the listener is left as it is, open or closed
CalendarOpenFails ==
    /\ pc = "oauth"
    /\ pc' = "failed"
    /\ left' = IF listener = "open"
               THEN left \cup {<<"cal", "listener">>}
               ELSE StillExchanging("cal")
    /\ UNCHANGED <<tokenFile, apiCalls, locals, inflight, running, listener,
                   credentials, outsideScan>>

\* the listener emits "close" and getCalendar returns: with the credentials
\* set the free/busy query is sent, without them it is refused before it is
\* sent.  A code exchange begun before may still be awaited
CalendarReady ==
    /\ pc = "oauth"
    /\ listener = "closing"
    /\ listener' = "closed"
    /\ IF credentials
       THEN /\ apiCalls' = apiCalls + 1
            /\ pc' = "query"
       ELSE /\ pc' = "failed"
            /\ UNCHANGED apiCalls
    /\ left' = StillExchanging("cal")
    /\ UNCHANGED <<tokenFile, credentials, locals, inflight, running,
                   outsideScan>>

\* what a handler left behind goes on: a callback handler that waited in
\* await oauth2.getToken writes the token file, or a request to
\* /oauth2callback is handled by the listener left open, where the token file
\* is written or not and server.close() is called
Afterwards ==
    /\ pc # "scan"
    /\ \E e \in left : \E saved \in BOOLEAN :
        /\ IF e[2] = "listener"
           THEN left' = (left \ {e}) \cup {<<e[1], "exchange">>}
           ELSE /\ saved
                /\ ~(IF e[1] = "gmail" THEN gmailToken ELSE tokenFile)
                /\ left' = left
        /\ gmailToken' = (gmailToken \/ (e[1] = "gmail" /\ saved))
        /\ tokenFile' = (tokenFile \/ (e[1] = "cal" /\ saved))
    /\ UNCHANGED <<args, busy, pc, locals, result, calls, firstResult,
                   otherCalls, apiCalls, logVars, loaded, fixed, inflight,
                   running, clientVars, authVars, pdfVars, askVars>>

\* cal.freebusy.query is answered with the busy list or rejected; after the
\* answer the three locals are set
QueryAnswered ==
    /\ pc = "query"
    /\ \E answered \in BOOLEAN :
        IF answered
        THEN /\ cursor' = InitCursor(args.timeMin)
             /\ endWin' = DateParse(args.timeMax)
             /\ durMs' = DurMs(args.durationMinutes)
             /\ timeZone' = TimeZoneOf(args)
             /\ idx' = 1
             /\ visited' = <<>>
             /\ pc' = "scan"
        ELSE /\ pc' = "failed"
             /\ UNCHANGED locals
    /\ UNCHANGED <<tokenFile, apiCalls, runVars, listener, credentials,
                   outsideScan>>

\* toISOString throws for the slot of payload r
Throws(r) == r.slotStart = RangeError \/ r.slotEnd = RangeError

\* a calendar_find_free handler has made payload r
Returned(r) ==
    /\ result' = r
    /\ calls' = calls + 1
    /\ firstResult' = IF firstResult = NoResult THEN r ELSE firstResult

\* the handler returns payload r
Return(r) ==
    /\ Returned(r)
    /\ pc' = IF Throws(r) THEN "threw" ELSE "done"

\* one iteration of for (const b of busy)
ScanStep ==
    /\ pc = "scan"
    /\ idx <= Len(busy)
    /\ visited' = Append(visited, idx)
    /\ IF GapFits(cursor, DateParse(busy[idx].start), durMs)
       THEN /\ Return(SlotJson(cursor, durMs, timeZone))
            /\ UNCHANGED <<cursor, idx>>
       ELSE /\ cursor' = Advance(cursor, DateParse(busy[idx].end))
            /\ idx' = idx + 1
            /\ UNCHANGED <<pc, result, calls, firstResult>>
    /\ UNCHANGED <<args, busy, tokenFile, endWin, durMs, timeZone, otherCalls,
                   apiCalls, others>>

\* the code after the loop
ScanTail ==
    /\ pc = "scan"
    /\ idx > Len(busy)
    /\ IF GapFits(cursor, endWin, durMs)
       THEN Return(SlotJson(cursor, durMs, timeZone))
       ELSE Return(NotFoundJson(timeZone))
    /\ UNCHANGED <<args, busy, tokenFile, locals, otherCalls, apiCalls, others>>

Next ==
    \/ CallFindFree
    \/ CalendarCallback
    \/ CalendarOpenFails
    \/ CalendarReady
    \/ Afterwards
    \/ QueryAnswered
    \/ ScanStep
    \/ ScanTail

Spec == Init /\ [][Next]_vars

\* ----------------------------------------------------------- the tool servers
\* zod validators
ZString(x) == IsString(x)

ZStringMin1(x) == IsString(x) /\ x # EmptyString

ZEmail(x) == x = Email

ZIntMin(x, lo) == x.kind = "number" /\ x.int /\ x.floor >= lo

ZInt(x, lo, hi) == ZIntMin(x, lo) /\ x.floor <= hi

ZEmails(x) ==
    x.kind = "array" /\ \A i \in DOMAIN x.items : ZEmail(x.items[i])

\* schema.parse(args ?? {}) of the tool's handler returns
Parses(name, a) ==
    CASE name = "load_pdf" -> ZStringMin1(a.target)
      [] name = "extract_text" -> ZIntMin(a.page, 1)
      [] name = "web_search" ->
            /\ ZStringMin1(a.query)
            /\ (a.num = Undefined \/ ZInt(a.num, 1, 10))
      [] name \in {"gmail_create_draft", "gmail_send_message"} ->
            /\ ZEmail(a.to)
            /\ ZString(a.subject)
            /\ ZString(a.body)
      [] name = "calendar_list_events" ->
            /\ ZStringMin1(a.timeMin)
            /\ ZStringMin1(a.timeMax)
            /\ (a.maxResults = Undefined \/ ZInt(a.maxResults, 1, 50))
            /\ (a.q = Undefined \/ ZString(a.q))
            /\ (a.timeZone = Undefined \/ ZString(a.timeZone))
      [] name = "calendar_create_event" ->
            /\ ZString(a.summary)
            /\ ZString(a.start)
            /\ ZString(a.end)
            /\ (a.attendees = Undefined \/ ZEmails(a.attendees))
            /\ (a.location = Undefined \/ ZString(a.location))
            /\ (a.description = Undefined \/ ZString(a.description))
            /\ (a.timeZone = Undefined \/ ZString(a.timeZone))
      [] name = "calendar_find_free" -> SchemaOk(a)
      [] OTHER -> TRUE

\* the tools each server lists
Tools ==
    [pdf   |-> {"load_pdf", "page_count", "extract_text"},
     web   |-> {"web_search"},
     gmail |-> {"gmail_profile", "gmail_create_draft", "gmail_send_message"},
     cal   |-> {"calendar_profile", "calendar_list_events",
                "calendar_create_event", "calendar_find_free"}]

\* a JSON value of the type an inputSchema property declares
HasType(x, type) ==
    CASE type = "string" -> IsString(x)
      [] type = "number" -> x.kind = "number"
      [] type = "strings" ->
            x.kind = "array" /\ \A i \in DOMAIN x.items : IsString(x.items[i])

\* the arguments satisfy the inputSchema the tool declares in tools/list:
\* the required properties are present, and every property present has the
\* declared type.  calendar_find_free arguments are in the form of the scan's
\* requests.
Declared(name, a) ==
    LET req(x, type) == HasType(x, type)
        opt(x, type) == x = Undefined \/ HasType(x, type)
    IN  CASE name = "load_pdf" -> req(a.target, "string")
          [] name = "extract_text" -> req(a.page, "number")
          [] name = "web_search" ->
                req(a.query, "string") /\ opt(a.num, "number")
          [] name \in {"gmail_create_draft", "gmail_send_message"} ->
                /\ req(a.to, "string")
                /\ req(a.subject, "string")
                /\ req(a.body, "string")
          [] name = "calendar_list_events" ->
                /\ req(a.timeMin, "string")
                /\ req(a.timeMax, "string")
                /\ opt(a.maxResults, "number")
                /\ opt(a.q, "string")
                /\ opt(a.timeZone, "string")
          [] name = "calendar_create_event" ->
                /\ req(a.summary, "string")
                /\ req(a.start, "string")
                /\ req(a.end, "string")
                /\ opt(a.attendees, "strings")
                /\ opt(a.location, "string")
                /\ opt(a.description, "string")
                /\ opt(a.timeZone, "string")
          [] name = "calendar_find_free" ->
                /\ a.durationKind \in {"int", "fraction"}
                /\ IsString(a.timeMin)
                /\ IsString(a.timeMax)
          [] OTHER -> TRUE

\* the names enumerated for the requests to server s: its tools, a tool of
\* another server and a name no server lists
NamesFor(s) ==
    Tools[s] \cup {"no_such_tool"} \cup
    (IF s = "pdf" THEN {"web_search"}
     ELSE IF s = "web" THEN {"load_pdf"}
     ELSE IF s = "gmail" THEN {"calendar_find_free"}
     ELSE {"gmail_send_message"})

\* arguments every schema of the tools accepts
MailArguments == [to |-> Email, subject |-> EmptyString, body |-> NotADate]

ListArguments ==
    [timeMin |-> IsoMinute(0), timeMax |-> IsoMinute(1),
     maxResults |-> Undefined, q |-> Undefined, timeZone |-> Undefined]

EventArguments ==
    [summary |-> NotADate, start |-> IsoMinute(0), end |-> IsoMinute(1),
     attendees |-> Undefined, location |-> Undefined,
     description |-> Undefined, timeZone |-> Undefined]

SearchArguments == [query |-> NotADate, num |-> Undefined]

\* the arguments enumerated for each tool: valid ones, and ones with one
\* property absent, of the wrong type, empty or out of range
Arguments(name) ==
    CASE name = "extract_text" ->
            [page : {Undefined, NotADate, Half(1)}
                        \cup {Number(n) : n \in 0..(MaxPages + 1)}]
      [] name = "web_search" ->
            {[SearchArguments EXCEPT !.query = v] :
                v \in {NotADate, Undefined, EmptyString}} \cup
            {[SearchArguments EXCEPT !.num = Number(11)]}
      [] name \in {"gmail_create_draft", "gmail_send_message"} ->
            {[MailArguments EXCEPT !.to = v] : v \in {Email, NotADate}} \cup
            {[MailArguments EXCEPT !.subject = Undefined]}
      [] name = "calendar_list_events" ->
            {[ListArguments EXCEPT !.timeMin = v] :
                v \in {IsoMinute(0), EmptyString}} \cup
            {[ListArguments EXCEPT !.timeMax = Undefined],
             [ListArguments EXCEPT !.maxResults = Number(51)]}
      [] name = "calendar_create_event" ->
            {EventArguments,
             [EventArguments EXCEPT !.summary = Undefined],
             [EventArguments EXCEPT !.attendees = Array(<<Email, NotADate>>)]}
      [] name = "calendar_find_free" ->
            {Request(0, IsoMinute(0), IsoMinute(2), "undefined"),
             [Request(1, IsoMinute(0), IsoMinute(2), "undefined")
                EXCEPT !.durationKind = "fraction"]} \cup
            {Request(1, t, IsoMinute(2), "undefined") :
                t \in {IsoMinute(0), NotADate, Undefined}}
      [] OTHER -> {NoArguments}

\* the arguments enumerated for a request for name to server s; the handler
\* reads none of a tool that is not its server's
ArgumentsAt(s, name) ==
    IF name \in Tools[s] THEN Arguments(name) ELSE {NoArguments}

\* what a handler has done when it ends or waits: how it ended ("pending"
\* while it waits), what it did on the way, and what it waits for: "end" when
\* it has ended, "oauth" for the listener's close, "api" for the reply of the
\* external API, "load" for the PDF library; "crash" when it ended the process
Ended(o, e) == [outcome |-> o, effects |-> e, at |-> "end"]

Waits(e, for) == [outcome |-> "pending", effects |-> e, at |-> for]

UnknownTool == Ended("Unknown tool", NoEffects)

\* the handler passed its request on, to the API or to the PDF library
Forwarded == [oauth |-> FALSE, forwarded |-> TRUE]

\* whether TOKEN_PATH of server s exists
HasToken(s) == IF s = "gmail" THEN gmailToken ELSE tokenFile

\* getGmail() or getCalendar() of server s and the API request after it, up to
\* the first wait: without the client id getOAuth2Client throws; a token file
\* is parsed, which throws when it holds no JSON, and then the request is
\* sent; without a token file ensureTokens starts the listener, and when the
\* port is held the unhandled "error" event ends the process
WithGoogle(s) ==
    IF ~env.GOOGLE_CLIENT
    THEN Ended("error", NoEffects)
    ELSE IF HasToken(s)
    THEN IF s \in corrupt
         THEN Ended("error", NoEffects)
         ELSE Waits([oauth |-> FALSE, forwarded |-> TRUE], "api")
    ELSE IF PortHeld
    THEN [outcome |-> "none", effects |-> [oauth |-> TRUE, forwarded |-> FALSE],
          at |-> "crash"]
    ELSE Waits([oauth |-> TRUE, forwarded |-> FALSE], "oauth")

\* a handler that gets the API client first and parses the arguments after
GoogleToolClientFirst(valid, s) ==
    IF WithGoogle(s).at # "api" \/ valid
    THEN WithGoogle(s)
    ELSE Ended("ZodError", NoEffects)

\* a Gmail or Calendar tool with a schema: schema.parse, then the API client
GoogleTool(valid, s) ==
    IF ~valid THEN Ended("ZodError", NoEffects) ELSE WithGoogle(s)

\* the failure of the tool's API request is caught
Catches(name) == name = "calendar_profile"

\* ensureTokens returned to the handler of tool name, which sends its API
\* request: with credentials it is forwarded, without them the client library
\* refuses it
FlowEnded(name, exchanged) ==
    IF exchanged
    THEN Waits([oauth |-> TRUE, forwarded |-> TRUE], "api")
    ELSE Ended(IF Catches(name) THEN "ok" ELSE "error",
               [oauth |-> TRUE, forwarded |-> FALSE])

\* the API request of tool name was answered or rejected
ApiAnswered(name, e, answered) ==
    Ended(IF answered \/ Catches(name) THEN "ok" ELSE "error", e)

\* the characters of a page text that askpdf puts into its prompt
ExcerptChars == 4000

\* the text of page i of the PDF at target: the pages of a document fetched
\* from a URL are longer than an excerpt
PageText(target, i) ==
    [source |-> target, page |-> i,
     chars |-> IF target.url THEN ExcerptChars + i ELSE i]

\* text.slice(0, n)
Slice(text, n) == [text EXCEPT !.chars = IF @ < n THEN @ ELSE n]

\* the pages array of a PDF of n pages at target
PagesOf(target, n) == [i \in 1..n |-> PageText(target, i)]

\* the PDF server's tools/call handler up to its first wait; readable: the
\* data of the PDF at the target can be read
PdfHandler(name, a, readable) ==
    IF name = "load_pdf"
    THEN IF ~Parses(name, a)
         THEN Ended("ZodError", NoEffects)
         ELSE IF ~readable
         THEN Ended("error", [oauth |-> FALSE, forwarded |-> TRUE])
         ELSE Waits([oauth |-> FALSE, forwarded |-> TRUE], "load")
    ELSE IF name = "page_count"
    THEN Ended(IF loaded = 0 THEN "No PDF loaded" ELSE "ok", NoEffects)
    ELSE IF name = "extract_text"
    THEN IF ~Parses(name, a)
         THEN Ended("ZodError", NoEffects)
         ELSE IF loaded = 0
         THEN Ended("No PDF loaded", NoEffects)
         ELSE IF a.page.floor > loaded
         THEN Ended("Page out of range", NoEffects)
         ELSE Ended("ok", NoEffects)
    ELSE UnknownTool

\* the web-search server's tools/call handler up to await getJson
WebHandler(name, a) ==
    IF name # "web_search"
    THEN UnknownTool
    ELSE IF ~Parses(name, a)
    THEN Ended("ZodError", NoEffects)
    ELSE IF ~env.SERPAPI_KEY
    THEN Ended("error", NoEffects)
    ELSE Waits([oauth |-> FALSE, forwarded |-> TRUE], "api")

\* the Gmail server's tools/call handler up to its first wait
GmailHandler(name, a) ==
    IF name = "gmail_profile"
    THEN WithGoogle("gmail")
    ELSE IF name = "gmail_create_draft"
    THEN GoogleTool(Parses(name, a), "gmail")
    ELSE IF name = "gmail_send_message"
    THEN GoogleTool(Parses(name, a), "gmail")
    ELSE UnknownTool

\* the Calendar server's tools/call handler up to its first wait, the scan of
\* calendar_find_free left to its own specification
CalendarHandler(name, a) ==
    IF name = "calendar_profile"
    THEN WithGoogle("cal")
    ELSE IF name = "calendar_list_events"
    THEN GoogleTool(Parses(name, a), "cal")
    ELSE IF name = "calendar_create_event"
    THEN GoogleTool(Parses(name, a), "cal")
    ELSE IF name = "calendar_find_free"
    THEN GoogleTool(Parses(name, a), "cal")
    ELSE UnknownTool

\* the handler of the tools/call request for name with arguments a at server
\* s has got as far as r
Handled(s, name, a, r) ==
    /\ request' = [server |-> s, name |-> name, arguments |-> a]
    /\ outcome' = r.outcome
    /\ effects' = r.effects

scanVars ==
    <<args, busy, pc, locals, result, calls, firstResult, otherCalls>>

\* what the handlers of the web-search, Gmail and Calendar servers leave alone
outsideCalls ==
    <<args, busy, locals, result, calls, firstResult, loaded, fixed, clientVars,
      authVars, pdfVars, askVars>>

\* sequence q without its element i
Without(q, i) == SubSeq(q, 1, i - 1) \o SubSeq(q, i + 1, Len(q))

\* the place of a waiting handler in the list of them, by server, tool and
\* stage
Rank(r) ==
    LET names == <<"web_search", "gmail_profile", "gmail_create_draft",
                   "gmail_send_message", "calendar_profile",
                   "calendar_list_events", "calendar_create_event",
                   "calendar_find_free">>
    IN  100 * (CHOOSE k \in DOMAIN names : names[k] = r.name)
        + 10 * (IF r.at = "oauth" THEN 1 ELSE IF r.at = "closing" THEN 2 ELSE 3)
        + (IF r.credentials THEN 1 ELSE 0)

\* the handlers that wait are in no order: q listed by server, tool and stage
Listed(q) == SortSeq(q, LAMBDA a, b : Rank(a) < Rank(b))

\* a tools/call request reaches server s and its handler runs as far as r: it
\* has ended, or it waits, or the process has ended with the handlers waiting
\* in it, the calendar_find_free call among them
Arrives(s, name, a, r) ==
    /\ s \in running
    /\ r.at \in {"oauth", "api"} => Len(inflight) < MaxInflight
    /\ Handled(s, name, a, r)
    /\ IF r.at = "crash"
       THEN /\ running' = running \ {s}
            /\ inflight' = Survivors(s)
            /\ left' = LeftAfter(s)
            /\ pc' = IF s = "cal" /\ pc \in {"oauth", "query"}
                     THEN "crashed" ELSE pc
       ELSE /\ inflight' =
                    IF r.at = "end" THEN inflight
                    ELSE Listed(Append(inflight,
                                [server |-> s, name |-> name, arguments |-> a,
                                 at |-> r.at, effects |-> r.effects,
                                 credentials |-> r.at = "api"]))
            /\ UNCHANGED <<running, left, pc>>
    /\ apiCalls' = IF s = "cal" /\ r.effects.forwarded
                   THEN apiCalls + 1 ELSE apiCalls

CallWeb ==
    /\ \E name \in NamesFor("web") : \E a \in ArgumentsAt("web", name) :
        Arrives("web", name, a, WebHandler(name, a))
    /\ UNCHANGED <<gmailToken, tokenFile, otherCalls, outsideCalls>>

CallGmail ==
    /\ \E name \in NamesFor("gmail") : \E a \in ArgumentsAt("gmail", name) :
        Arrives("gmail", name, a, GmailHandler(name, a))
    /\ UNCHANGED <<gmailToken, tokenFile, otherCalls, outsideCalls>>

\* the calendar API requests that handlers waiting for the OAuth flow may send
Unsent ==
    Len(SelectSeq(inflight, LAMBDA r : r.server = "cal" /\ r.at # "api"))

CallCalendar ==
    /\ apiCalls + Unsent < MaxOther
    /\ \E name \in NamesFor("cal") : \E a \in ArgumentsAt("cal", name) :
        Arrives("cal", name, a, CalendarHandler(name, a))
    /\ UNCHANGED <<gmailToken, tokenFile, otherCalls, outsideCalls>>

\* a request to /oauth2callback is handled to its end by the listener of a
\* waiting handler: the code is exchanged or not and the token file written
\* or not, and server.close() frees the port.  The handler waits on for the
\* "close" event, and a request on a connection the listener took before may
\* still follow
OAuthCallback ==
    /\ pc # "scan"
    /\ \E i \in DOMAIN inflight : \E exchanged \in BOOLEAN :
        \E saved \in Saved(exchanged) :
        LET h == inflight[i]
        IN  /\ h.at \in {"oauth", "closing"}
            /\ inflight' = Listed([inflight EXCEPT
                                ![i].at = "closing",
                                ![i].credentials = (@ \/ exchanged)])
            /\ gmailToken' = (gmailToken \/ (h.server = "gmail" /\ saved))
            /\ tokenFile' = (tokenFile \/ (h.server = "cal" /\ saved))
    /\ UNCHANGED <<running, left, pc, apiCalls, otherCalls, logVars,
                   outsideCalls>>

\* await open(authUrl) rejects in a waiting handler: ensureTokens throws and
\* the handler with it; its listener is left as it is, open or closed
OpenFails ==
    /\ pc # "scan"
    /\ \E i \in DOMAIN inflight :
        LET h == inflight[i]
        IN  /\ h.at \in {"oauth", "closing"}
            /\ Handled(h.server, h.name, h.arguments,
                       Ended("error", [oauth |-> TRUE, forwarded |-> FALSE]))
            /\ inflight' = Without(inflight, i)
            /\ left' = IF h.at = "oauth"
                       THEN left \cup {<<h.server, "listener">>}
                       ELSE StillExchanging(h.server)
    /\ UNCHANGED <<running, pc, gmailToken, tokenFile, apiCalls, otherCalls,
                   outsideCalls>>

\* the listener of a waiting handler emits "close" and ensureTokens returns;
\* the handler sends its API request.  A code exchange begun before may still
\* be awaited
TokensEnsured ==
    /\ pc # "scan"
    /\ \E i \in DOMAIN inflight :
        LET h == inflight[i]
            r == FlowEnded(h.name, h.credentials)
        IN  /\ h.at = "closing"
            /\ left' = StillExchanging(h.server)
            /\ Handled(h.server, h.name, h.arguments, r)
            /\ inflight' = IF r.at = "end" THEN Without(inflight, i)
                           ELSE Listed([inflight EXCEPT
                                            ![i].at = r.at,
                                            ![i].effects = r.effects])
            /\ apiCalls' = IF h.server = "cal" /\ h.credentials
                           THEN apiCalls + 1 ELSE apiCalls
    /\ UNCHANGED <<running, pc, gmailToken, tokenFile, otherCalls, outsideCalls>>

\* what the answer to an API request leaves alone
outsideAnswer ==
    <<args, busy, locals, loaded, fixed, clientVars, authVars, pdfVars, askVars>>

\* the external API answers or rejects the request of a waiting handler, and
\* the handler ends; the handler of calendar_find_free scans the busy list of
\* the answer in the same turn
ApiAnswers ==
    /\ pc # "scan"
    /\ \E i \in DOMAIN inflight : \E answered \in BOOLEAN :
        LET h == inflight[i]
            found == FindFree(busy, h.arguments)
        IN  /\ h.at = "api"
            /\ inflight' = Without(inflight, i)
            /\ IF h.name = "calendar_find_free" /\ answered
               THEN /\ Handled(h.server, h.name, h.arguments,
                               Ended(IF Throws(found) THEN "error" ELSE "ok",
                                     h.effects))
                    /\ Returned(found)
               ELSE /\ Handled(h.server, h.name, h.arguments,
                               ApiAnswered(h.name, h.effects, answered))
                    /\ UNCHANGED <<result, calls, firstResult>>
    /\ UNCHANGED <<running, left, pc, gmailToken, tokenFile, apiCalls,
                   otherCalls, outsideAnswer>>

\* ------------------------------------------------------------------ the client
serverVars == <<scanVars, tokenFile, apiCalls, toolVars, authVars, pdfVars>>

\* the commands of the line handler, a word that is none of them, and the
\* empty line
Commands ==
    {"exit", "load", "pages", "text", "askpdf", "search", "emailme",
     "emaildraft", "emailsend", "calme", "calsearch", "calfree",
     "calschedule", "help", ""}

\* every command's requests go through the gmail client
ClientOfGmailOnly(cmd) ==
    IF cmd \in Commands THEN "gmail" ELSE "none"

\* the client whose request() a command's branch calls
ClientOf(cmd) ==
    CASE cmd \in {"load", "pages", "text", "askpdf"} -> "pdf"
      [] cmd = "search" -> "web"
      [] cmd \in {"emailme", "emaildraft", "emailsend"} -> "gmail"
      [] cmd \in {"calme", "calsearch", "calfree", "calschedule"} -> "cal"
      [] OTHER -> "none"

Min(a, b) == IF a <= b THEN a ELSE b

ToolCall(cmd, name) == [server |-> ClientOf(cmd), name |-> name]

\* the tools/call request the branch of cmd sends first, none when the branch
\* sends nothing.  given: the argument has the parts the branch asks for
FirstCall(cmd, given) ==
    CASE cmd = "load" -> <<ToolCall(cmd, "load_pdf")>>
      [] cmd = "pages" -> <<ToolCall(cmd, "page_count")>>
      [] cmd = "text" -> <<ToolCall(cmd, "extract_text")>>
      [] cmd = "askpdf" -> <<ToolCall(cmd, "page_count")>>
      [] cmd = "search" -> <<ToolCall(cmd, "web_search")>>
      [] cmd = "emailme" -> <<ToolCall(cmd, "gmail_profile")>>
      [] cmd = "emaildraft" ->
            IF given THEN <<ToolCall(cmd, "gmail_create_draft")>> ELSE <<>>
      [] cmd = "emailsend" ->
            IF given THEN <<ToolCall(cmd, "gmail_send_message")>> ELSE <<>>
      [] cmd = "calme" -> <<ToolCall(cmd, "calendar_list_events")>>
      [] cmd = "calsearch" ->
            IF given THEN <<ToolCall(cmd, "calendar_list_events")>> ELSE <<>>
      [] cmd = "calfree" -> <<ToolCall(cmd, "calendar_find_free")>>
      [] cmd = "calschedule" ->
            IF given THEN <<ToolCall(cmd, "calendar_create_event")>> ELSE <<>>
      [] OTHER -> <<>>

\* the line handler of line n waits at: "reply" for the reply of its one
\* request, "pages" for the reply of page_count, "text" for the reply of
\* extract_text for page asked, "answer" for generateAnswer, "close" for the
\* close() of client asked
Awaits(n, cmd, at, total, asked) ==
    [line |-> n, cmd |-> cmd, at |-> at, total |-> total, asked |-> asked]

\* the request of line n as it is logged
Sent(n, call) == [line |-> n, server |-> call.server, name |-> call.name]

\* spawnServer: client.connect(transport) returns or rejects
Connect ==
    /\ clientPc = "spawning"
    /\ Len(connected) = Len(listed)
    /\ Len(connected) < Len(ServerOrder)
    /\ \E ok \in BOOLEAN :
        IF ok
        THEN /\ connected' = Append(connected, ServerOrder[Len(connected) + 1])
             /\ UNCHANGED clientPc
        ELSE /\ clientPc' = "crashed"
             /\ UNCHANGED connected
    /\ UNCHANGED <<listed, sent, lines, pending, closed, serverVars, askVars>>

\* spawnServer: the tools/list request is answered or fails
ListTools ==
    /\ clientPc = "spawning"
    /\ Len(connected) = Len(listed) + 1
    /\ \E ok \in BOOLEAN :
        IF ok
        THEN /\ listed' = Append(listed, connected[Len(connected)])
             /\ UNCHANGED clientPc
        ELSE /\ clientPc' = "crashed"
             /\ UNCHANGED listed
    /\ UNCHANGED <<connected, sent, lines, pending, closed, serverVars, askVars>>

\* main: readline.createInterface and rl.on("line")
OpenRepl ==
    /\ clientPc = "spawning"
    /\ Len(listed) = Len(ServerOrder)
    /\ clientPc' = "repl"
    /\ UNCHANGED <<connected, listed, sent, lines, pending, closed, serverVars, askVars>>

\* whether the argument of cmd has the parts its branch asks for (and, for
\* calsearch, is a date, or toISOString throws); the other branches send their
\* request whatever the argument
Given(cmd) ==
    IF cmd \in {"emaildraft", "emailsend", "calsearch", "calschedule"}
    THEN BOOLEAN
    ELSE {TRUE}

\* whether the client of server s takes a request: one whose close() has been
\* called may refuse it
Accepted(s) == IF s \in closed THEN BOOLEAN ELSE {TRUE}

\* a line is read and its handler runs up to its first await: exit calls
\* close() of the first client, a branch with a request sends it (a client
\* that is being closed may refuse it, which the handler catches), any other
\* line ends at once
Line ==
    /\ clientPc = "repl"
    /\ Len(lines) < MaxLines
    /\ \E cmd \in Commands : \E given \in Given(cmd) :
        \E accepted \in Accepted(ClientOf(cmd)) :
        LET n == Len(lines) + 1
            call == FirstCall(cmd, given)
        IN  /\ lines' = Append(lines, cmd)
            /\ IF cmd = "exit"
               THEN /\ accepted
                    /\ pending' = Append(pending, Awaits(n, cmd, "close", 0, 1))
                    /\ closed' = closed \cup {ServerOrder[1]}
                    /\ UNCHANGED sent
               ELSE IF call = <<>>
               THEN /\ accepted
                    /\ UNCHANGED <<sent, pending, closed>>
               ELSE IF accepted
               THEN /\ sent' = Append(sent, Sent(n, call[1]))
                    /\ pending' =
                        Append(pending,
                               Awaits(n, cmd,
                                      IF cmd = "askpdf" THEN "pages" ELSE "reply",
                                      0, 0))
                    /\ UNCHANGED closed
               ELSE UNCHANGED <<sent, pending, closed>>
    /\ UNCHANGED <<connected, listed, clientPc, serverVars, askVars>>

\* total of the askpdf handler h: what the page_count reply holds, and from
\* then on what was read from it
PagesRead(h) == IF h.at = "pages" THEN 0..MaxPages ELSE {h.total}

\* the handler i has ended
Settled(i) == pending' = Without(pending, i)

\* the handler i sends extract_text for the next page and waits for the reply;
\* a run sends at most MaxLines + MaxPages requests
NextPage(i, total) ==
    /\ Len(sent) < MaxLines + MaxPages
    /\ sent' = Append(sent, Sent(pending[i].line,
                                 ToolCall("askpdf", "extract_text")))
    /\ pending' = [pending EXCEPT ![i] =
                    Awaits(@.line, @.cmd, "text", total, @.asked + 1)]

\* what a waiting line handler waits for has come, a result (ok) or an error,
\* and the handler runs up to its next await or to its end
Reply ==
    /\ clientPc = "repl"
    /\ \E i \in DOMAIN pending : \E ok \in BOOLEAN :
        \E pages \in PagesRead(pending[i]) : \E accepted \in Accepted("pdf") :
        LET h == pending[i]
        IN  IF ~ok
            THEN /\ Settled(i)
                 /\ UNCHANGED <<sent, clientPc, closed>>
            ELSE IF h.at = "close"
            THEN IF h.asked < Len(ServerOrder)
                 THEN /\ pending' = [pending EXCEPT ![i].asked = @ + 1]
                      /\ closed' = closed \cup {ServerOrder[h.asked + 1]}
                      /\ UNCHANGED <<sent, clientPc>>
                 ELSE /\ clientPc' = "exited"
                      /\ pending' = <<>>
                      /\ UNCHANGED <<sent, closed>>
            ELSE IF h.at \in {"pages", "text"} /\ h.asked < Min(pages, 5)
            THEN /\ IF accepted
                    THEN NextPage(i, pages)
                    ELSE /\ Settled(i)
                         /\ UNCHANGED sent
                 /\ UNCHANGED <<clientPc, closed>>
            ELSE IF h.at \in {"pages", "text"}
            THEN /\ pending' = [pending EXCEPT ![i] =
                                Awaits(@.line, @.cmd, "answer", pages, @.asked)]
                 /\ UNCHANGED <<sent, clientPc, closed>>
            ELSE /\ Settled(i)
                 /\ UNCHANGED <<sent, clientPc, closed>>
    /\ UNCHANGED <<connected, listed, lines, serverVars, askVars>>

ClientInit ==
    /\ InitWith({<<Request(1, IsoMinute(0), IsoMinute(2), "undefined"), <<>>>>})
    /\ ToolIdle
    /\ AuthIdle
    /\ PdfIdle
    /\ connected = <<>>
    /\ listed = <<>>
    /\ clientPc = "spawning"
    /\ sent = <<>>
    /\ lines = <<>>
    /\ pending = <<>>
    /\ closed = {}

ClientNext == Connect \/ ListTools \/ OpenRepl \/ Line \/ Reply

ClientSpec == ClientInit /\ [][ClientNext]_vars

\* ------------------------------------------------------------- token acquisition
\* what stays as it is while ensureTokens runs
outsideAuth ==
    <<scanVars, logVars, loaded, gmailToken, fixed, runVars, clientVars,
      pdfVars, askVars>>

\* the request targets enumerated: the redirect, another path, and a target
\* that is no URL against the listener's base
Targets == {"/oauth2callback", "/favicon.ico", "//"}

\* new URL(req.url, base) throws: the target has no host
NoUrl(path) == path = "//"

\* the listener's handler goes on past the pathname test
Handles(path) == path = "/oauth2callback"

\* a tool call asks for the API client: getOAuth2Client, then ensureTokens up
\* to server.listen.  With a token file the credentials are read from it,
\* unless JSON.parse throws; without one the listener is started
EnsureTokens ==
    /\ authPc = "idle"
    /\ IF ~env.GOOGLE_CLIENT \/ (tokenFile /\ "cal" \in corrupt)
       THEN /\ authPc' = "errored"
            /\ UNCHANGED <<credentials, listener>>
       ELSE IF tokenFile
       THEN /\ credentials' = TRUE
            /\ authPc' = "returned"
            /\ UNCHANGED listener
       ELSE /\ listener' = "open"
            /\ authPc' = "opening"
            /\ UNCHANGED credentials
    /\ UNCHANGED <<tokenFile, apiCalls, exchanging, exchanges, writes, arrived,
                   callbacks, outsideAuth>>

\* await open(authUrl) returns and the wait for the "close" event begins, or
\* it rejects and ensureTokens throws with its listener left open
OpenBrowser ==
    /\ authPc = "opening"
    /\ \E opened \in BOOLEAN :
        authPc' = IF opened THEN "waiting" ELSE "errored"
    /\ UNCHANGED <<tokenFile, apiCalls, credentials, listener, exchanging,
                   exchanges, writes, arrived, callbacks, outsideAuth>>

\* an HTTP request reaches the listener: the handler up to its first await.
\* A target that is no URL and a callback without a code throw, and the catch
\* block calls server.close().  server.close() stops the accepting of
\* connections only, so that a request on a connection accepted before still
\* arrives until "close" is emitted
Arrive ==
    /\ listener \in {"open", "closing"}
    /\ arrived < MaxRequests
    /\ \E path \in Targets : \E hasCode \in BOOLEAN :
        /\ arrived' = arrived + 1
        /\ callbacks' = IF path = "/oauth2callback"
                        THEN callbacks + 1 ELSE callbacks
        /\ IF NoUrl(path)
           THEN /\ listener' = "closing"
                /\ UNCHANGED <<exchanging, exchanges>>
           ELSE IF ~Handles(path)
           THEN UNCHANGED <<listener, exchanging, exchanges>>
           ELSE IF ~hasCode
           THEN /\ listener' = "closing"
                /\ UNCHANGED <<exchanging, exchanges>>
           ELSE /\ exchanging' = exchanging + 1
                /\ exchanges' = exchanges + 1
                /\ UNCHANGED listener
    /\ UNCHANGED <<tokenFile, apiCalls, authPc, credentials, writes, outsideAuth>>

\* oauth2.getToken returns or throws in one of the handlers: the rest of the
\* handler, which ends in server.close() either way.  On a listener that has
\* closed server.close() emits "close" once more
ExchangeDone ==
    /\ exchanging > 0
    /\ exchanging' = exchanging - 1
    /\ \E ok \in BOOLEAN : \E saved \in BOOLEAN :
        IF ~ok
        THEN UNCHANGED <<credentials, tokenFile, writes>>
        ELSE IF ~saved
        THEN /\ credentials' = TRUE
             /\ UNCHANGED <<tokenFile, writes>>
        ELSE /\ credentials' = TRUE
             /\ tokenFile' = TRUE
             /\ writes' = writes + 1
    /\ listener' = IF listener \in {"closed", "emitting"}
                   THEN "emitting" ELSE "closing"
    /\ UNCHANGED <<apiCalls, authPc, exchanges, arrived, callbacks, outsideAuth>>

\* the listener emits "close"; ensureTokens returns if it waits for it
EmitClose ==
    /\ listener \in {"closing", "emitting"}
    /\ listener' = "closed"
    /\ authPc' = IF authPc = "waiting" THEN "returned" ELSE authPc
    /\ UNCHANGED <<tokenFile, apiCalls, credentials, exchanging, exchanges,
                   writes, arrived, callbacks, outsideAuth>>

\* the tool's request to the Google API, refused by the client library when no
\* credentials are set
ApiRequest ==
    /\ authPc = "returned"
    /\ IF credentials
       THEN /\ authPc' = "answered"
            /\ apiCalls' = apiCalls + 1
       ELSE /\ authPc' = "refused"
            /\ UNCHANGED apiCalls
    /\ UNCHANGED <<tokenFile, credentials, listener, exchanging, exchanges,
                   writes, arrived, callbacks, outsideAuth>>

AuthInit ==
    /\ InitWith({<<Request(1, IsoMinute(0), IsoMinute(2), "undefined"), <<>>>>})
    /\ ToolQuiet
    /\ gmailToken = FALSE
    /\ env \in [SERPAPI_KEY : {TRUE}, GOOGLE_CLIENT : BOOLEAN,
                CALENDAR_DEFAULT_TZ : {"undefined"}]
    /\ corrupt \in (IF tokenFile THEN {{}, {"cal"}} ELSE {{}})
    /\ running = Servers
    /\ ClientReady
    /\ AuthIdle
    /\ PdfIdle

AuthNext ==
    EnsureTokens \/ OpenBrowser \/ Arrive \/ ExchangeDone \/ EmitClose \/ ApiRequest

AuthSpec == AuthInit /\ [][AuthNext]_vars

\* ------------------------------------------------------------- the PDF server
outsidePdf ==
    <<scanVars, tokenFile, apiCalls, gmailToken, fixed, runVars, clientVars,
      authVars>>

\* a target string; url: it matches /^https?:\/\//i
Target(name, url) == [kind |-> "text", name |-> name, url |-> url]

FileA == Target("a.pdf", FALSE)

FileB == Target("b.pdf", FALSE)

\* a PDF without a page
FileE == Target("e.pdf", FALSE)

MissingFile == Target("none.pdf", FALSE)

UrlC == Target("http://h/c.pdf", TRUE)

\* the targets of the enumerated load_pdf calls, three of them no valid argument
LoadTargets ==
    {Undefined, EmptyString, Number(1), FileA, FileB, FileE, MissingFile, UrlC}

\* fs.existsSync(abs)
Exists(target) == target \in {FileA, FileB, FileE}

\* the data of the PDF can be read: the fetch answers ok, or the file exists
Readable(target, fetched) == IF target.url THEN fetched ELSE Exists(target)

\* doc.numPages
PageCountOf(target) ==
    IF target = FileE THEN 0 ELSE IF target = FileA THEN 1 ELSE MaxPages

\* the loaded document
Loaded == [pageCount |-> loaded, pages |-> loadedPages, source |-> loadedSource]

\* a load that stores every page in loaded as soon as it is extracted
CommitEachPage(cur, ld) ==
    [pageCount |-> Len(ld.got), pages |-> ld.got, source |-> ld.target]

\* loaded after run ld has pushed a page: assigned when the loop has ended
Commit(cur, ld) ==
    IF Len(ld.got) = PageCountOf(ld.target)
    THEN [pageCount |-> Len(ld.got), pages |-> ld.got, source |-> ld.target]
    ELSE cur

\* loaded.pages[page - 1]
TextOfPage(page) == loadedPages[page.floor]

\* the payload of a call that ended as r
PdfReply(name, a, r) ==
    IF r.outcome # "ok" THEN NoReply
    ELSE IF name = "page_count" THEN [pages |-> loaded]
    ELSE [page |-> a.page.floor, text |-> TextOfPage(a.page)]

\* load_pdf is called: schema.parse and loadPdfToMemory up to its first await
LoadPdf ==
    /\ "pdf" \in running
    /\ Len(loads) < MaxLoads
    /\ \E target \in LoadTargets : \E fetched \in BOOLEAN :
        LET a == [target |-> target]
            r == PdfHandler("load_pdf", a,
                            Parses("load_pdf", a) /\ Readable(target, fetched))
        IN  /\ Handled("pdf", "load_pdf", a, r)
            /\ loads' = Append(loads,
                    [target |-> target, got |-> <<>>,
                     status |-> IF r.at = "load" THEN "running" ELSE "failed"])
    /\ reply' = NoReply
    /\ UNCHANGED <<loaded, loadedPages, loadedSource, lastOk, askVars, outsidePdf>>

\* one run of loadPdfToMemory goes on by one page: the page is extracted and
\* pushed, and after the last page loaded is assigned and the handler returns
\* its payload; or the parse fails and the handler throws.  For a document
\* without pages the loop is skipped and loaded is assigned when
\* pdfjs.getDocument has answered
LoadPage ==
    /\ \E id \in 1..Len(loads) : \E ok \in BOOLEAN :
        /\ loads[id].status = "running"
        /\ IF ~ok
           THEN /\ loads' = [loads EXCEPT ![id].status = "failed"]
                /\ Handled("pdf", "load_pdf", [target |-> loads[id].target],
                           Ended("error", Forwarded))
                /\ reply' = NoReply
                /\ UNCHANGED <<loaded, loadedPages, loadedSource, lastOk>>
           ELSE LET target == loads[id].target
                    got == IF PageCountOf(target) = 0
                           THEN <<>>
                           ELSE Append(loads[id].got,
                                       PageText(target, Len(loads[id].got) + 1))
                    ld == [loads[id] EXCEPT !.got = got]
                    done == Len(got) = PageCountOf(target)
                IN  /\ loads' = [loads EXCEPT ![id] =
                            [ld EXCEPT !.status = IF done THEN "ok" ELSE "running"]]
                    /\ loaded' = Commit(Loaded, ld).pageCount
                    /\ loadedPages' = Commit(Loaded, ld).pages
                    /\ loadedSource' = Commit(Loaded, ld).source
                    /\ lastOk' = IF done THEN id ELSE lastOk
                    /\ IF done
                       THEN /\ Handled("pdf", "load_pdf", [target |-> target],
                                       Ended("ok", Forwarded))
                            /\ reply' = [ok |-> TRUE, pages |-> Len(got),
                                         source |-> target]
                       ELSE UNCHANGED <<request, outcome, effects, reply>>
    /\ UNCHANGED <<askVars, outsidePdf>>

\* page_count, extract_text or a tool the server does not have is called
CallPdf ==
    /\ "pdf" \in running
    /\ \E name \in NamesFor("pdf") \ {"load_pdf"} :
        \E a \in ArgumentsAt("pdf", name) :
        LET r == PdfHandler(name, a, FALSE)
        IN  /\ Handled("pdf", name, a, r)
            /\ reply' = PdfReply(name, a, r)
    /\ UNCHANGED <<loaded, loadedPages, loadedSource, loads, lastOk, askVars,
                   outsidePdf>>

PdfInit ==
    /\ InitWith({<<Request(1, IsoMinute(0), IsoMinute(2), "undefined"), <<>>>>})
    /\ tokenFile = FALSE
    /\ ToolIdle
    /\ ClientReady
    /\ AuthIdle
    /\ PdfIdle

PdfNext == LoadPdf \/ LoadPage \/ CallPdf

PdfSpec == PdfInit /\ [][PdfNext]_vars

\* --------------------------------------------------------------------- askpdf
\* the askpdf branch sends page_count
AskPageCount ==
    /\ askPc = "idle"
    /\ askPc' = "counting"
    /\ askWire' = [kind |-> "request", name |-> "page_count",
                   arguments |-> NoArguments]
    /\ UNCHANGED <<askTotal, askSource, askRead, generations, toolVars, pdfVars,
                   outsidePdf>>

\* the PDF server handles the request of the askpdf: its answer is made from
\* loaded as it is now
AskServed ==
    /\ askWire.kind = "request"
    /\ LET r == PdfHandler(askWire.name, askWire.arguments, FALSE)
       IN  /\ Handled("pdf", askWire.name, askWire.arguments, r)
           /\ reply' = PdfReply(askWire.name, askWire.arguments, r)
           /\ askWire' = [kind |-> "reply", outcome |-> r.outcome,
                          payload |-> PdfReply(askWire.name, askWire.arguments, r),
                          source |-> loadedSource]
    /\ UNCHANGED <<askPc, askTotal, askSource, askRead, generations, loaded,
                   gmailToken, fixed, runVars, loadedPages, loadedSource, loads,
                   lastOk, scanVars, tokenFile, apiCalls, clientVars, authVars>>

\* the reply to page_count reaches the askpdf branch: total
AskTotal ==
    /\ askPc = "counting"
    /\ askWire.kind = "reply"
    /\ IF askWire.outcome # "ok"
       THEN /\ askPc' = "failed"
            /\ UNCHANGED <<askTotal, askSource>>
       ELSE /\ askPc' = "reading"
            /\ askTotal' = askWire.payload.pages
            /\ askSource' = askWire.source
    /\ askWire' = NoWire
    /\ UNCHANGED <<askRead, generations, toolVars, pdfVars, outsidePdf>>

\* one iteration of the loop over the pages: extract_text for page i is sent
AskExtract ==
    /\ askPc = "reading"
    /\ askWire = NoWire
    /\ Len(askRead) < Min(askTotal, 5)
    /\ askWire' = [kind |-> "request", name |-> "extract_text",
                   arguments |-> [page |-> Number(Len(askRead) + 1)]]
    /\ UNCHANGED <<askPc, askTotal, askSource, askRead, generations, toolVars,
                   pdfVars, outsidePdf>>

\* the reply to extract_text reaches the loop: the first ExcerptChars
\* characters of the text are added to context
AskContext ==
    /\ askPc = "reading"
    /\ askWire.kind = "reply"
    /\ IF askWire.outcome # "ok"
       THEN /\ askPc' = "failed"
            /\ UNCHANGED askRead
       ELSE /\ askRead' = Append(askRead,
                    [page |-> Len(askRead) + 1,
                     text |-> Slice(askWire.payload.text, ExcerptChars)])
            /\ UNCHANGED askPc
    /\ askWire' = NoWire
    /\ UNCHANGED <<askTotal, askSource, generations, toolVars, pdfVars, outsidePdf>>

\* after the loop: generateAnswer(prompt)
AskGenerate ==
    /\ askPc = "reading"
    /\ askWire = NoWire
    /\ Len(askRead) = Min(askTotal, 5)
    /\ generations' = generations + 1
    /\ askPc' = "done"
    /\ UNCHANGED <<askTotal, askSource, askRead, askWire, toolVars, pdfVars,
                   outsidePdf>>

AskNext ==
    \/ LoadPdf
    \/ LoadPage
    \/ AskPageCount
    \/ AskServed
    \/ AskTotal
    \/ AskExtract
    \/ AskContext
    \/ AskGenerate

AskSpec == PdfInit /\ [][AskNext]_vars

\* ------------------------------------------------- the four servers together
\* the token files at the start: which servers have one, and whose holds no
\* JSON
TokenFiles ==
    { [has |-> {}, corrupt |-> {}],
      [has |-> {"cal"}, corrupt |-> {}],
      [has |-> {"gmail"}, corrupt |-> {}],
      [has |-> {"gmail", "cal"}, corrupt |-> {}],
      [has |-> {"cal"}, corrupt |-> {"cal"}],
      [has |-> {"gmail"}, corrupt |-> {"gmail"}] }

\* the server processes that run: the PDF server, the web-search server, or
\* the Gmail and the Calendar server, which listen on one redirect port
ToolInit ==
    /\ InitWith({<<Request(1, IsoMinute(0), IsoMinute(2), "undefined"), <<>>>>})
    /\ ToolQuiet
    /\ running \in {{"pdf"}, {"web"}, {"gmail", "cal"}}
    /\ env \in [SERPAPI_KEY : IF "web" \in running THEN BOOLEAN ELSE {TRUE},
                GOOGLE_CLIENT : IF "cal" \in running THEN BOOLEAN ELSE {TRUE},
                CALENDAR_DEFAULT_TZ : {"undefined"}]
    /\ \E held \in TokenFiles :
        /\ held.has \subseteq running
        /\ held.has # {} => env.GOOGLE_CLIENT
        /\ tokenFile = ("cal" \in held.has)
        /\ gmailToken = ("gmail" \in held.has)
        /\ corrupt = held.corrupt
    /\ ClientReady
    /\ AuthIdle
    /\ PdfIdle

ToolNext ==
    \/ CallPdf
    \/ LoadPdf
    \/ LoadPage
    \/ CallWeb
    \/ CallGmail
    \/ CallCalendar
    \/ OAuthCallback
    \/ OpenFails
    \/ TokensEnsured
    \/ ApiAnswers
    \/ Afterwards

ToolSpec == ToolInit /\ [][ToolNext]_vars

\* ----------------------------------------------------------------- a session
\* the calendar_find_free calls that have not been answered
Unanswered ==
    Len(SelectSeq(inflight, LAMBDA r : r.name = "calendar_find_free"))
        + (IF pc \in {"idle", "oauth", "query", "scan"} THEN 1 ELSE 0)

\* the client sends the same calendar_find_free request once more.  While the
\* handler of the call before waits for the OAuth flow or the free/busy
\* answer, the new handler runs up to its first wait and waits beside it;
\* after the call before has ended the new handler is followed step by step,
\* with an OAuth2 client of its own
CallAgain ==
    /\ pc \in {"oauth", "query", "done", "failed", "rejected", "threw"}
    /\ calls + Unanswered < MaxCalls
    /\ apiCalls + Unsent < MaxCalls + MaxOther
    /\ IF pc \in {"oauth", "query"}
       THEN /\ Arrives("cal", "calendar_find_free", args,
                       CalendarHandler("calendar_find_free", args))
            /\ UNCHANGED <<gmailToken, tokenFile, otherCalls, outsideCalls>>
       ELSE /\ pc' = "idle"
            /\ listener' = "none"
            /\ credentials' = FALSE
            /\ UNCHANGED <<args, busy, tokenFile, locals, result, calls,
                           firstResult, otherCalls, apiCalls, toolVars,
                           clientVars, authRest, pdfVars, askVars>>

\* the arguments of the calls of other tools in a session: those the schema
\* accepts, and a calendar_list_events call without timeMax
OtherArguments(name) ==
    {a \in Arguments(name) : Parses(name, a)} \cup
    (IF name = "calendar_list_events"
     THEN {[ListArguments EXCEPT !.timeMax = Undefined]} ELSE {})

\* calendar_profile, calendar_list_events or calendar_create_event is called;
\* the loop of calendar_find_free gives way to no other handler
OtherTool ==
    /\ pc # "scan"
    /\ otherCalls < MaxOther
    /\ \E name \in Tools.cal \ {"calendar_find_free"} :
        \E a \in OtherArguments(name) :
            Arrives("cal", name, a, CalendarHandler(name, a))
    /\ otherCalls' = otherCalls + 1
    /\ UNCHANGED <<gmailToken, tokenFile, outsideCalls>>

SessionInputs ==
    { <<Request(1, IsoMinute(0), IsoMinute(6), "undefined"),
        <<Busy(0, 1), Busy(3, 4)>>>>,
      <<Request(1, NotADate, IsoMinute(2), "undefined"), <<Busy(1, 2)>>>>,
      <<Request(1, IsoMinute(0), IsoMinute(2), "UTC"),
        <<[start |-> Null, end |-> Null]>>>>,
      <<Request(0, IsoMinute(0), IsoMinute(2), "undefined"), <<Busy(1, 2)>>>> }

SessionInit ==
    InitWith(SessionInputs) /\ ToolIdle /\ ClientReady /\ AuthIdle /\ PdfIdle

SessionNext ==
    \/ Next
    \/ CallAgain
    \/ OtherTool
    \/ OAuthCallback
    \/ OpenFails
    \/ TokensEnsured
    \/ ApiAnswers

SessionSpec == SessionInit /\ [][SessionNext]_vars

TypeOK ==
    /\ pc \in {"idle", "oauth", "query", "scan", "done", "rejected", "failed",
               "threw", "crashed"}
    /\ idx \in 1..(Len(busy) + 1)
    /\ calls \in 0..MaxCalls
    /\ otherCalls \in 0..MaxOther
    /\ left \subseteq {"gmail", "cal"} \X {"listener", "exchange"}

\* ----------------------------------------------------------------- properties
\* what the properties read off a state
Done == pc = "done"

Found == Done /\ result.slotStart # Null

windowStart == DateParse(args.timeMin)

windowEnd == DateParse(args.timeMax)

\* the requested duration in milliseconds
wanted == Num(args.durationMinutes * 60000)

BusyStart(i) == DateParse(busy[i].start)

BusyEnd(i) == DateParse(busy[i].end)

\* the payload of the slot [from, from + wanted]
SlotAt(from) ==
    [slotStart |-> DateToISOString(from),
     slotEnd   |-> DateToISOString(JsAdd(from, wanted)),
     timeZone  |-> TimeZoneOf(args)]

NoSlot == [slotStart |-> Null, slotEnd |-> Null, timeZone |-> TimeZoneOf(args)]

\* the whole minutes from the epoch to the last timestamp of the state
Stamps ==
    {windowStart, windowEnd}
        \cup {BusyStart(i) : i \in 1..Len(busy)}
        \cup {BusyEnd(i) : i \in 1..Len(busy)}

LastMinute ==
    LET ms == {Val(n) \div MsPerMinute : n \in Stamps \ {NaN}}
    IN  IF ms = {} THEN 0 ELSE CHOOSE m \in ms : \A k \in ms : k <= m

Ticks == {Num(t * MsPerMinute) : t \in 0..LastMinute}

\* [t, t + wanted] lies in the window and meets no busy interval
ValidGap(t) ==
    /\ JsGe(t, windowStart)
    /\ JsGe(windowEnd, JsAdd(t, wanted))
    /\ \A i \in 1..Len(busy) :
        JsGe(BusyStart(i), JsAdd(t, wanted)) \/ JsGe(t, BusyEnd(i))

\* C1: a returned slot lies in the window: slotStart >= windowStart and
\* slotEnd <= windowEnd.  The loop returns [cursor, cursor + durMs] without
\* looking at windowEnd, so a busy interval that starts after the window's end
\* lets a slot run past it.
C1_SlotInsideWindow ==
    Found =>
        /\ JsGe(DateParse(result.slotStart), windowStart)
        /\ JsGe(windowEnd, DateParse(result.slotEnd))

\* busy interval i ends at or before windowStart or starts at or after windowEnd
OutsideWindow(i) == JsGe(windowStart, BusyEnd(i)) \/ JsGe(BusyStart(i), windowEnd)

\* C2: when every busy interval lies fully outside the window, the result is the
\* result for the empty busy list with the same window and duration.
C2_OutsideBusyAsEmpty ==
    (Done /\ \A i \in 1..Len(busy) : OutsideWindow(i))
        => result = FindFree(<<>>, args)

\* C3: first fit: no valid gap starts before a returned slot, and "not found"
\* is returned only when the window holds no valid gap.
C3_FirstFit ==
    Done =>
        /\ Found =>
            \A t \in Ticks :
                ValidGap(t) => JsGe(t, DateParse(result.slotStart))
        /\ (\E t \in Ticks : ValidGap(t)) => Found

\* a slot was returned behind a busy interval that the scan skipped
C3_Witness ==
    /\ Found
    /\ Len(visited) >= 2
    /\ ~JsGe(windowStart, DateParse(result.slotStart))
    /\ \E t \in Ticks : ValidGap(t) /\ ~JsGe(DateParse(result.slotStart), t)

OverlapBusy == <<Busy(10, 20), Busy(15, 25)>>

OverlapCall(from) == Request(5, IsoMinute(from), IsoMinute(30), "undefined")

\* C4 as stated: busy [10,20] and [15,25], window [0,30], duration 5: the cursor
\* advances to 25 and the slot returned is [25,30].
C4_OverlapSlotAt25 ==
    (Done /\ busy = OverlapBusy /\ args = OverlapCall(0))
        => /\ cursor = Num(25 * MsPerMinute)
           /\ result.slotStart = IsoMinute(25)
           /\ result.slotEnd = IsoMinute(30)

\* C4 amended: with busy [10,20] and [15,25] and duration 5 no slot meets
\* [10,25].  In window [0,30] the gap before the first interval fits, so the slot
\* is [0,5] and the cursor stays at 0; in window [10,30] the cursor advances to
\* 25 and the slot is [25,30].
C4_OverlapTolerance ==
    (Done /\ busy = OverlapBusy /\ args \in {OverlapCall(0), OverlapCall(10)})
        => /\ Found
           /\ \/ JsGe(Num(10 * MsPerMinute), DateParse(result.slotEnd))
              \/ JsGe(DateParse(result.slotStart), Num(25 * MsPerMinute))
           /\ args = OverlapCall(0) =>
                /\ cursor = Num(0)
                /\ result.slotStart = IsoMinute(0)
                /\ result.slotEnd = IsoMinute(5)
           /\ args = OverlapCall(10) =>
                /\ cursor = Num(25 * MsPerMinute)
                /\ result.slotStart = IsoMinute(25)
                /\ result.slotEnd = IsoMinute(30)

\* the scan has absorbed both overlapping intervals and answered [25,30]
C4_Witness ==
    /\ Done
    /\ busy = OverlapBusy
    /\ args = OverlapCall(10)
    /\ visited = <<1, 2>>
    /\ result.slotStart = IsoMinute(25)

\* C5: with no busy interval the slot is [windowStart, windowStart + duration]
\* when windowEnd - windowStart >= duration, and "not found" otherwise.
C5_EmptyBusy ==
    (Done /\ busy = <<>>)
        => result = IF JsGe(JsSub(windowEnd, windowStart), wanted)
                    THEN SlotAt(windowStart)
                    ELSE NoSlot

\* an empty busy list and a window of exactly the requested length
C5_Witness ==
    /\ Found
    /\ busy = <<>>
    /\ JsSub(windowEnd, windowStart) = wanted
    /\ result.slotStart = args.timeMin

\* C6: an inverted or empty window yields "not found" for every busy list.
C6_InvertedWindowNotFound ==
    (Done /\ JsGe(windowStart, windowEnd))
        => result.slotStart = Null /\ result.slotEnd = Null

\* a busy interval of length zero at minute t
ZeroLength(t) == Busy(t, t)

InsertAt(seq, p, x) == SubSeq(seq, 1, p - 1) \o <<x>> \o SubSeq(seq, p, Len(seq))

\* position p keeps the list ascending by start when an interval starting at
\* minute t is put there
SortedPosition(p, t) ==
    /\ \A j \in 1..(p - 1) : JsGe(Num(t * MsPerMinute), BusyStart(j))
    /\ \A j \in p..Len(busy) : JsGe(BusyStart(j), Num(t * MsPerMinute))

\* C7 as stated: a zero-length busy interval put at its sorted position never
\* changes the result.
C7_ZeroLengthNoDelay ==
    Done =>
        \A t \in 0..LastMinute : \A p \in 1..(Len(busy) + 1) :
            SortedPosition(p, t) => FindFree(InsertAt(busy, p, ZeroLength(t)), args) = result

\* minute t is at or before windowStart or the end of an interval before p
Covered(p, t) ==
    \/ JsGe(windowStart, Num(t * MsPerMinute))
    \/ \E j \in 1..(p - 1) : JsGe(BusyEnd(j), Num(t * MsPerMinute))

\* C7 amended: a zero-length busy interval put at its sorted position does not
\* change the result when its instant is at or before windowStart or at or
\* before the end of a busy interval that precedes it in the list.
C7_CoveredZeroLengthNoDelay ==
    Done =>
        \A t \in 0..LastMinute : \A p \in 1..(Len(busy) + 1) :
            (SortedPosition(p, t) /\ Covered(p, t))
                => FindFree(InsertAt(busy, p, ZeroLength(t)), args) = result

\* a slot found behind a busy interval into which a zero-length interval,
\* later than windowStart, can be put
C7_Witness ==
    /\ Found
    /\ Len(visited) = Len(busy)
    /\ \E t \in 0..LastMinute : \E p \in 2..(Len(busy) + 1) :
        /\ SortedPosition(p, t)
        /\ Covered(p, t)
        /\ ~JsGe(windowStart, Num(t * MsPerMinute))

\* C8: a result is a slot of exactly the requested length or has both bounds
\* null.
C8_SlotOrBothNull ==
    Done =>
        \/ result.slotStart = Null /\ result.slotEnd = Null
        \/ /\ result.slotStart.kind = "iso"
           /\ result.slotEnd.kind = "iso"
           /\ JsSub(DateParse(result.slotEnd), DateParse(result.slotStart))
                = Num(args.durationMinutes * 60000)

\* a slot found in the loop, one minute or longer
C8_Witness ==
    /\ Found
    /\ Len(visited) >= 1
    /\ Len(visited) = idx
    /\ args.durationMinutes >= 2

\* C9: the scan raises no error on any busy list: it reads the intervals in
\* order, each at most once, always has a next step until it returns, and ends
\* in a payload whose bounds are timestamps or null.
C9_ScanNeverThrows ==
    /\ pc # "threw"
    /\ Len(visited) <= Len(busy)
    /\ \A k \in 1..Len(visited) : visited[k] = k
    /\ pc = "scan" => idx = Len(visited) + 1 /\ ENABLED (ScanStep \/ ScanTail)
    /\ Done =>
        /\ result.slotStart.kind \in {"iso", "null"}
        /\ result.slotEnd.kind \in {"iso", "null"}

\* a scan over an unsorted list with an interval that ends before it starts,
\* read to its end and answered "not found"
C9_Witness ==
    /\ Done
    /\ Len(busy) >= 2
    /\ Len(visited) = Len(busy)
    /\ ~JsGe(BusyStart(2), BusyStart(1))
    /\ ~JsGe(BusyEnd(1), BusyStart(1))
    /\ result.slotStart = Null

\* C10: a calendar_find_free call with the arguments and busy list of an
\* earlier one returns the payload of the earlier one, whatever calls of other
\* tools came before or between them.
C10_SameCallSameResult == result # NoResult => result = firstResult

\* two calls that were in flight together have both returned a slot behind a
\* busy interval: the second one arrived while the first waited, another tool
\* was called, and the answer to the second came last
C10_Witness ==
    /\ Found
    /\ calls = 2
    /\ otherCalls >= 1
    /\ request.name = "calendar_find_free"
    /\ outcome = "ok"
    /\ ~JsGe(windowStart, DateParse(result.slotStart))

\* C11 as stated: in every outcome the timeZone of the result is the timeZone
\* of the request.
C11_TimeZoneOfRequest == Done => result.timeZone = args.timeZone

\* C11 amended: in every outcome (slot found in the loop, slot found after the
\* loop, not found) the timeZone of the result is the timeZone the request
\* names, and when the request names none the value of CALENDAR_DEFAULT_TZ,
\* or "America/Chicago" when that is not set or empty.
C11_TimeZonePassedOrDefault ==
    Done =>
        /\ args.timeZone # "undefined" => result.timeZone = args.timeZone
        /\ args.timeZone = "undefined" =>
            result.timeZone = IF env.CALENDAR_DEFAULT_TZ \in {"undefined", ""}
                              THEN "America/Chicago"
                              ELSE env.CALENDAR_DEFAULT_TZ

\* a request that names a time zone got its slot from the loop
C11_Witness ==
    /\ Found
    /\ args.timeZone = "UTC"
    /\ result.timeZone = "UTC"
    /\ Len(visited) = idx

\* the values a request can give as timeZone
TimeZoneArgs == {"undefined", "UTC", "Asia/Tokyo"}

\* C12: requests that differ in timeZone alone get the same slotStart and
\* slotEnd.
C12_TimeZoneNotInArithmetic ==
    Done =>
        \A tz \in TimeZoneArgs :
            LET other == FindFree(busy, [args EXCEPT !.timeZone = tz])
            IN  /\ other.slotStart = result.slotStart
                /\ other.slotEnd = result.slotEnd

\* a slot found for a request that names a time zone, which the request without
\* one gets under another timeZone
C12_Witness ==
    /\ Found
    /\ args.timeZone = "UTC"
    /\ Len(visited) >= 1
    /\ FindFree(busy, [args EXCEPT !.timeZone = "undefined"]).timeZone # result.timeZone

\* C13: a request whose timeMin or timeMax is no parseable timestamp is refused
\* where the arguments are parsed: no free/busy query is sent for it, the scan
\* never runs on it and it gets no payload.
C13_UnparseableWindowRefused ==
    (IsNaN(windowStart) \/ IsNaN(windowEnd))
        => /\ pc \notin {"scan", "done"}
           /\ apiCalls = 0
           /\ result = NoResult

\* the requested duration is an integer of at least one minute
ValidDuration == args.durationKind = "int" /\ args.durationMinutes >= 1

\* C14: a request whose durationMinutes is no integer >= 1 is rejected before a
\* free/busy query is sent and before the scan; the scan runs with durMs > 0.
C14_BadDurationRejected ==
    /\ ~ValidDuration =>
        /\ pc \in {"idle", "rejected"}
        /\ apiCalls = 0
        /\ visited = <<>>
        /\ result = NoResult
    /\ pc \in {"scan", "done"} => ~IsNaN(durMs) /\ Val(durMs) > 0

\* a request for a minute and a half has been rejected
C14_Witness ==
    /\ pc = "rejected"
    /\ args.durationKind = "fraction"
    /\ args.durationMinutes = 1
    /\ IsString(args.timeMin)
    /\ IsString(args.timeMax)
    /\ apiCalls = 0

\* C15: if the first busy interval starts at least the duration after
\* windowStart, the slot returned is [windowStart, windowStart + duration]; busy
\* [60,90], window [0,120], duration 30 gives [0,30].
C15_SlotAtWindowStart ==
    /\ (Done /\ Len(busy) >= 1 /\ JsGe(JsSub(BusyStart(1), windowStart), wanted))
            => result = SlotAt(windowStart)
    /\ (Done /\ busy = <<Busy(60, 90)>>
             /\ args = Request(30, IsoMinute(0), IsoMinute(120), "UTC"))
            => /\ result.slotStart = IsoMinute(0)
               /\ result.slotEnd = IsoMinute(30)

\* the scan of busy [60,90] in window [0,120] returned at its first interval
C15_Witness ==
    /\ Found
    /\ busy = <<Busy(60, 90)>>
    /\ args.durationMinutes = 30
    /\ visited = <<1>>
    /\ result.slotStart = args.timeMin

\* the larger of two JavaScript numbers, NaN when either is NaN
Later(a, b) ==
    IF IsNaN(a) \/ IsNaN(b) THEN NaN ELSE IF Val(a) >= Val(b) THEN a ELSE b

\* the maximum of windowStart and the ends of the first k busy intervals
RECURSIVE CursorAfter(_)
CursorAfter(k) ==
    IF k = 0 THEN windowStart ELSE Later(CursorAfter(k - 1), BusyEnd(k))

\* the gap before no busy interval holds the duration
NoGapBeforeBusy ==
    \A i \in 1..Len(busy) :
        ~JsGe(JsSub(BusyStart(i), CursorAfter(i - 1)), wanted)

\* C16: when no gap before a busy interval is sufficient, the tail gap decides:
\* with c the cursor after the last interval the slot is [c, c + duration] if
\* windowEnd - c >= duration, and otherwise the result is "not found".  Busy
\* [0,90], window [0,120], duration 30 gives [90,120]; busy [0,100] gives "not
\* found".
C16_TailGapDecides ==
    /\ (Done /\ NoGapBeforeBusy) =>
            LET c == CursorAfter(Len(busy))
            IN  result = IF JsGe(JsSub(windowEnd, c), wanted)
                         THEN SlotAt(c) ELSE NoSlot
    /\ (Done /\ args = Request(30, IsoMinute(0), IsoMinute(120), "UTC")) =>
            /\ busy = <<Busy(0, 90)>> =>
                /\ result.slotStart = IsoMinute(90)
                /\ result.slotEnd = IsoMinute(120)
            /\ busy = <<Busy(0, 100)>> =>
                /\ result.slotStart = Null
                /\ result.slotEnd = Null

\* the scan of busy [0,90] in window [0,120] returned the tail gap
C16_Witness ==
    /\ Found
    /\ busy = <<Busy(0, 90)>>
    /\ args.durationMinutes = 30
    /\ idx = 2
    /\ visited = <<1>>
    /\ result.slotEnd = args.timeMax

\* the timestamps of busy interval i parse
BusyParses(i) == ~IsNaN(BusyStart(i)) /\ ~IsNaN(BusyEnd(i))

\* the cursor is the maximum of windowStart and the ends of the intervals
\* processed so far
CursorIsRunningMax ==
    pc \in {"scan", "done"} => cursor = CursorAfter(idx - 1)

\* a step of the scan leaves the cursor or moves it forward
CursorNotBackward ==
    (pc = "scan" /\ idx <= Len(busy) /\ BusyParses(idx))
        => cursor' = cursor \/ JsGe(cursor', cursor)

\* C19: during one scan the cursor never moves backward: it starts at
\* windowStart, and after each busy interval, in any order and overlapping or
\* not, it is at least what it was and equals the maximum of windowStart and
\* the ends of the intervals processed so far.
C19_CursorNeverBackward ==
    /\ [](pc = "scan" /\ idx = 1 => cursor = windowStart)
    /\ []CursorIsRunningMax
    /\ [][CursorNotBackward]_vars

\* two intervals were processed, the second ending before the first
C19_Witness ==
    /\ pc = "scan"
    /\ idx = 3
    /\ visited = <<1, 2>>
    /\ BusyParses(1)
    /\ BusyParses(2)
    /\ ~JsGe(BusyEnd(2), BusyEnd(1))
    /\ ~JsGe(windowStart, cursor)
    /\ cursor = BusyEnd(1)

\* the busy list is ascending by start and no interval ends before it starts
AscendingByStart ==
    /\ \A i \in 1..Len(busy) : JsGe(BusyEnd(i), BusyStart(i))
    /\ \A i \in 1..(Len(busy) - 1) : JsGe(BusyStart(i + 1), BusyStart(i))

\* C20: if the busy list is ascending by start and every interval has start <=
\* end, a returned slot is disjoint from every busy interval: slotEnd <=
\* b.start or slotStart >= b.end.
C20_SlotDisjointFromBusy ==
    (Found /\ AscendingByStart) =>
        \A i \in 1..Len(busy) :
            \/ JsGe(BusyStart(i), DateParse(result.slotEnd))
            \/ JsGe(DateParse(result.slotStart), BusyEnd(i))

\* a slot was returned behind two busy intervals that overlap
C20_Witness ==
    /\ Found
    /\ AscendingByStart
    /\ Len(busy) = 2
    /\ visited = <<1, 2>>
    /\ ~JsGe(BusyStart(2), BusyEnd(1))
    /\ ~JsGe(BusyEnd(1), BusyEnd(2))
    /\ JsGe(DateParse(result.slotStart), BusyEnd(2))

\* the tools that declare required inputs
ToolsWithInputs ==
    {"load_pdf", "extract_text", "web_search", "gmail_create_draft",
     "gmail_send_message", "calendar_list_events", "calendar_create_event",
     "calendar_find_free"}

\* the request handled last names a tool of its server
KnownTool == request.server # "none" /\ request.name \in Tools[request.server]

\* the request handled last is for a tool with required inputs and its
\* arguments fail the declared schema or the schema the handler parses with
FailsSchema ==
    /\ KnownTool
    /\ request.name \in ToolsWithInputs
    /\ \/ ~Declared(request.name, request.arguments)
       \/ ~Parses(request.name, request.arguments)

\* the request handled last names no tool of its server
NamesUnknownTool == request.server # "none" /\ ~KnownTool

\* the handler left the servers' state as it was
ServerStateKept ==
    /\ loaded' = loaded
    /\ loadedPages' = loadedPages
    /\ loadedSource' = loadedSource
    /\ gmailToken' = gmailToken
    /\ tokenFile' = tokenFile
    /\ apiCalls' = apiCalls
    /\ inflight' = inflight
    /\ running' = running
    /\ left' = left

\* a request has reached its handler, or a waiting handler has gone on
HandlerStep == logVars' # logVars

\* C17: validation precedes forwarding in every tool server: a call of a tool
\* with required inputs whose arguments fail the schema raises an error without
\* starting OAuth, without a request to the external API and without changing
\* server state; a call naming an unknown tool raises "Unknown tool" with the
\* same absence of effects.
C17_ValidationBeforeForwarding ==
    /\ [](FailsSchema => outcome = "ZodError" /\ effects = NoEffects)
    /\ [](NamesUnknownTool => outcome = "Unknown tool" /\ effects = NoEffects)
    /\ [][(HandlerStep /\ (FailsSchema \/ NamesUnknownTool)')
            => ServerStateKept]_vars

\* the Gmail server, without a token file, refused to send a message to an
\* address that is a string and no e-mail address
C17_Witness ==
    /\ request.server = "gmail"
    /\ request.name = "gmail_send_message"
    /\ request.arguments.to = NotADate
    /\ Declared(request.name, request.arguments)
    /\ env.GOOGLE_CLIENT
    /\ ~gmailToken
    /\ outcome = "ZodError"
    /\ inflight # <<>>

\* the server the claim assigns to a command
OwnServer(cmd) ==
    CASE cmd \in {"load", "pages", "text", "askpdf"} -> "pdf"
      [] cmd = "search" -> "web"
      [] cmd \in {"emailme", "emaildraft", "emailsend"} -> "gmail"
      [] cmd \in {"calme", "calsearch", "calfree", "calschedule"} -> "cal"
      [] OTHER -> "nowhere"

\* s is the first servers of main's order
SpawnedInOrder(s) ==
    /\ Len(s) <= 4
    /\ \A i \in 1..Len(s) : s[i] = <<"pdf", "web", "gmail", "cal">>[i]

\* C18: the client accepts REPL commands only after the four servers (pdf, web,
\* gmail, calendar, in that order) have been spawned, connected and answered
\* tools/list; every command sends tool calls only to its own server, and an
\* unrecognized command sends nothing.
C18_SpawnThenRoute ==
    /\ SpawnedInOrder(connected)
    /\ SpawnedInOrder(listed)
    /\ Len(listed) <= Len(connected)
    /\ Len(connected) <= Len(listed) + 1
    /\ (clientPc \in {"repl", "exited"} \/ lines # <<>>) =>
            Len(connected) = 4 /\ Len(listed) = 4
    /\ \A i \in 1..Len(sent) :
            /\ sent[i].line \in 1..Len(lines)
            /\ sent[i].server = OwnServer(lines[sent[i].line])

\* after the four servers were spawned, the REPL read an askpdf that went
\* through two pages, and then a word that is no command and sent nothing
C18_Witness ==
    /\ clientPc = "repl"
    /\ Len(lines) = 2
    /\ lines[1] = "askpdf"
    /\ lines[2] = "help"
    /\ Len(sent) = 3
    /\ sent[1].name = "page_count"
    /\ sent[3].name = "extract_text"

\* ensureTokens was entered without a token file and has returned
ReturnedFromFlow ==
    listener # "none" /\ authPc \in {"returned", "answered", "refused"}

\* C21: without a cached token file ensureTokens returns only after the token
\* has been obtained, set as the credentials and saved to the token file; it
\* never returns, and the tool call never goes on to the Google API, with no
\* credentials set.
C21_ReturnsWithSavedToken ==
    ReturnedFromFlow =>
        /\ exchanges >= 1
        /\ credentials
        /\ tokenFile
        /\ authPc # "refused"

\* no exchange and no close come from a request to another path
OtherPathIgnored ==
    (arrived' = arrived + 1 /\ callbacks' = callbacks)
        => /\ exchanges' = exchanges
           /\ exchanging' = exchanging
           /\ listener' = listener

\* C22: the callback listener is one-shot: in one ensureTokens run the code is
\* exchanged at most once and the token file written at most once, for any
\* interleaving of requests; requests to other paths trigger no exchange and
\* do not close the listener.
C22_OneShotListener ==
    /\ [](exchanges <= 1 /\ writes <= 1)
    /\ [][OtherPathIgnored]_vars

\* with a token file ensureTokens starts no listener and is over at once: it
\* returns with the credentials set, or throws when the file holds no JSON
CachedTokenNoListener ==
    (authPc = "idle" /\ env.GOOGLE_CLIENT /\ tokenFile)
        => /\ listener' = "none"
           /\ authPc' = IF "cal" \in corrupt THEN "errored" ELSE "returned"
           /\ credentials' = ("cal" \notin corrupt)

\* C23: token acquisition has no timeout: without a cached token and without a
\* request to /oauth2callback ensureTokens never completes and the tool call
\* gets neither a result nor an error; with a cached token file ensureTokens
\* completes without starting a listener.
C23_NoTimeout ==
    /\ []((listener # "none" /\ callbacks = 0)
            => /\ authPc \in {"opening", "waiting"}
               /\ listener = "open"
               /\ apiCalls = 0)
    /\ [][CachedTokenNoListener]_vars

\* the load_pdf call that succeeded last
LastLoad == loads[lastOk]

\* loaded holds the whole document of the load that succeeded last, or nothing
LoadedIsLastLoad ==
    /\ Len(loadedPages) = loaded
    /\ (lastOk = 0) <=> (loaded = 0)
    /\ (lastOk = 0) <=> (\A id \in 1..Len(loads) : loads[id].status # "ok")
    /\ lastOk # 0 =>
        /\ LastLoad.status = "ok"
        /\ loaded = PageCountOf(LastLoad.target)
        /\ loadedPages = PagesOf(LastLoad.target, loaded)

\* the answer to the page_count or extract_text call just handled is the one
\* the load that succeeded last calls for
CallAnswered ==
    /\ request.name = "page_count" =>
        IF lastOk = 0
        THEN outcome = "No PDF loaded" /\ reply = NoReply
        ELSE outcome = "ok" /\ reply = [pages |-> PageCountOf(LastLoad.target)]
    /\ request.name = "extract_text" =>
        IF ~ZIntMin(request.arguments.page, 1)
        THEN outcome # "ok" /\ reply = NoReply
        ELSE IF lastOk = 0
        THEN outcome = "No PDF loaded" /\ reply = NoReply
        ELSE IF request.arguments.page.floor <= PageCountOf(LastLoad.target)
        THEN /\ outcome = "ok"
             /\ reply = [page |-> request.arguments.page.floor,
                         text |-> PageText(LastLoad.target,
                                           request.arguments.page.floor)]
        ELSE outcome = "Page out of range" /\ reply = NoReply

\* C24: after any sequence of load_pdf, page_count and extract_text calls
\* loaded.pages has loaded.pageCount entries; page_count and extract_text (with
\* an integer page >= 1) fail with "No PDF loaded" exactly when no load_pdf has
\* succeeded yet; otherwise page_count returns the page count of the load that
\* succeeded last, and extract_text(page) succeeds exactly for
\* 1 <= page <= pageCount with that page's text of that load, and fails with
\* "Page out of range" for page > pageCount
C24_PdfAnswersFromLastLoad ==
    /\ []LoadedIsLastLoad
    /\ [][loads' = loads => CallAnswered']_vars

\* the document a load that ran to its end stores
DocumentOf(ld) ==
    [pageCount |-> PageCountOf(ld.target),
     pages |-> PagesOf(ld.target, PageCountOf(ld.target)),
     source |-> ld.target]

\* loaded is as constructed or the whole document of one load that succeeded
FromOneLoad ==
    \/ Loaded = [pageCount |-> 0, pages |-> <<>>, source |-> EmptyString]
    \/ \E id \in 1..Len(loads) :
        loads[id].status = "ok" /\ Loaded = DocumentOf(loads[id])

\* a step in which a load_pdf call fails leaves loaded as it was
FailureKeepsLoaded ==
    (\E id \in 1..Len(loads') :
        /\ loads'[id].status = "failed"
        /\ (id > Len(loads) \/ loads[id].status # "failed"))
    => Loaded' = Loaded

\* a step that changes loaded ends a running load and stores its document
ReplacedTogether ==
    Loaded' # Loaded =>
        \E id \in 1..Len(loads) :
            /\ loads[id].status = "running"
            /\ loads'[id].status = "ok"
            /\ Loaded' = DocumentOf(loads'[id])

\* C25: a load_pdf call that fails (schema violation, file not found, HTTP
\* fetch failure, parse failure on any page) leaves pages, pageCount and source
\* as they were; they are replaced together in one step, when the whole new
\* document has been extracted, so that also with overlapping load_pdf calls
\* the three fields come from one and the same load
C25_FailedLoadKeepsDocument ==
    /\ []FromOneLoad
    /\ [][FailureKeepsLoaded /\ ReplacedTogether]_vars

\* a load failed after it had extracted a page, and loaded still holds the
\* whole document of the other load
C25_Witness ==
    /\ Len(loads) = 2
    /\ loads[1].status = "ok"
    /\ loads[2].status = "failed"
    /\ Len(loads[2].got) = 1
    /\ loads[2].target # loads[1].target
    /\ Loaded = DocumentOf(loads[1])

\* the pages askpdf has read are pages 1, 2, ... in this order
ReadAscending ==
    /\ Len(askRead) <= Min(askTotal, 5)
    /\ \A i \in 1..Len(askRead) : askRead[i].page = i

\* C26: an askpdf command reads pages 1..min(pageCount, 5) in ascending order
\* and then calls the text generator once, and all the page texts of its prompt
\* come from the loaded document whose page count it read, also when a load
\* command is entered while the askpdf is in progress
C26_AskpdfReadsOneDocument ==
    /\ ReadAscending
    /\ generations <= 1
    /\ askPc = "done" =>
        /\ generations = 1
        /\ Len(askRead) = Min(askTotal, 5)
        /\ \A i \in 1..Len(askRead) : askRead[i].text.source = askSource

====
